---------------------------- MODULE Spec2Model ----------------------------
(***************************************************************************)
(* Model of the DRV8305 gate-driver core: the three-level polling state    *)
(* machine (drv8305_api.c), the wire-packet codec, the per-register pack   *)
(* macros and the write-confirmation comparators.                          *)
(*                                                                         *)
(* One driver instance (drv8305_user_object_t) and the process-wide        *)
(* configuration store (default_configuration) are modelled in full; a     *)
(* second instance and a drv8305_set_configuration call running in another *)
(* context are modelled where a property is about them.  The transport     *)
(* callbacks are the environment: the value returned by the receive        *)
(* callback is an input of the poll action.                                *)
(***************************************************************************)
EXTENDS Integers, Naturals, Sequences, FiniteSets, TLC

(***************************************************************************)
(* Program constants (drv8305_macros.h, drv8305_register_map.h).           *)
(***************************************************************************)
DRV8305_NUMBER_OF_REGISTERS == 11
DRV8305_STATUS_POLLING_INTERVAL_MS == 250
DRV8305_STANDARD_TASK_DELAY_TIMEOUT == 500
DRV8305_REGISTER_SWITCH_DELAY_MS == 50

DRV8305_STATUS_01_ARRAY_INDEX == 0
DRV8305_STATUS_02_ARRAY_INDEX == 1
DRV8305_STATUS_03_ARRAY_INDEX == 2
DRV8305_STATUS_04_ARRAY_INDEX == 3
DRV8305_CONTROL_05_ARRAY_INDEX == 4
DRV8305_CONTROL_06_ARRAY_INDEX == 5
DRV8305_CONTROL_07_ARRAY_INDEX == 6
DRV8305_CONTROL_09_ARRAY_INDEX == 7
DRV8305_CONTROL_0A_ARRAY_INDEX == 8
DRV8305_CONTROL_0B_ARRAY_INDEX == 9
DRV8305_CONTROL_0C_ARRAY_INDEX == 10

DRV8305_STATUS_01_REG_ADDR == 1
DRV8305_STATUS_02_REG_ADDR == 2
DRV8305_STATUS_03_REG_ADDR == 3
DRV8305_STATUS_04_REG_ADDR == 4
DRV8305_CONTROL_05_REG_ADDR == 5
DRV8305_CONTROL_06_REG_ADDR == 6
DRV8305_CONTROL_07_REG_ADDR == 7
DRV8305_CONTROL_09_REG_ADDR == 9
DRV8305_CONTROL_0A_REG_ADDR == 10
DRV8305_CONTROL_0B_REG_ADDR == 11
DRV8305_CONTROL_0C_REG_ADDR == 12

\* const drv8305_register_types_t drv8305_registers[11]
\* a faulty table that does not skip the reserved address 0x08; C28 must
\* reject it
drv8305_registers_contiguous ==
    [i \in 0..(DRV8305_NUMBER_OF_REGISTERS - 1) |-> i + 1]

drv8305_registers ==
    [i \in 0..(DRV8305_NUMBER_OF_REGISTERS - 1) |->
        CASE i = 0 -> DRV8305_STATUS_01_REG_ADDR
          [] i = 1 -> DRV8305_STATUS_02_REG_ADDR
          [] i = 2 -> DRV8305_STATUS_03_REG_ADDR
          [] i = 3 -> DRV8305_STATUS_04_REG_ADDR
          [] i = 4 -> DRV8305_CONTROL_05_REG_ADDR
          [] i = 5 -> DRV8305_CONTROL_06_REG_ADDR
          [] i = 6 -> DRV8305_CONTROL_07_REG_ADDR
          [] i = 7 -> DRV8305_CONTROL_09_REG_ADDR
          [] i = 8 -> DRV8305_CONTROL_0A_REG_ADDR
          [] i = 9 -> DRV8305_CONTROL_0B_REG_ADDR
          [] OTHER -> DRV8305_CONTROL_0C_REG_ADDR]

(***************************************************************************)
(* State enumerations (drv8305_api.h, and the WAKE_UP / SLEEP cases that   *)
(* drv8305_api_master_sm_polling switches on).                             *)
(***************************************************************************)
DRV8305_INIT_STATE == "INIT"
DRV8305_IDLE_STATE == "IDLE"
DRV8305_WAKE_UP_STATE == "WAKE_UP"
DRV8305_SLEEP_STATE == "SLEEP"
DRV8305_STATUS_STATE == "STATUS"
DRV8305_CONTROL_STATE == "CONTROL"
DRV8305_DELAY_STATE == "DELAY"

DRV8305_SM_STATUS_WARNING_REG == "WARNING_REG"
DRV8305_SM_STATUS_OV_VDS_REG == "OV_VDS_REG"
DRV8305_SM_STATUS_IC_FAULTS_REG == "IC_FAULTS_REG"
DRV8305_SM_STATUS_VGS_FAULTS_REG == "VGS_FAULTS_REG"
DRV8305_SM_STATUS_CYCLE_DELAY == "STATUS_CYCLE_DELAY"

DRV8305_SM_CONTROL_HS_GATE_DRIVE_REG == "HS_GATE_DRIVE_REG"
DRV8305_SM_CONTROL_LS_GATE_DRIVE_REG == "LS_GATE_DRIVE_REG"
DRV8305_SM_CONTROL_GATE_DRIVE_REG == "GATE_DRIVE_REG"
DRV8305_SM_CONTROL_IC_OPERATION_REG == "IC_OPERATION_REG"
DRV8305_SM_CONTROL_SHUNT_AMPLIFIER_REG == "SHUNT_AMPLIFIER_REG"
DRV8305_SM_CONTROL_VOLTAGE_REGULATOR_REG == "VOLTAGE_REGULATOR_REG"
DRV8305_SM_CONTROL_VDS_SENSE_REG == "VDS_SENSE_REG"
DRV8305_SM_CONTROL_CYCLE_DELAY == "CONTROL_CYCLE_DELAY"

DRV8305_SM_READ_CONTROL_STATES ==
    {"READ_CONTROL_HS_GATE_DRIVE_REG", "READ_CONTROL_LS_GATE_DRIVE_REG",
     "READ_CONTROL_GATE_DRIVE_REG", "READ_CONTROL_IC_OPERATION_REG",
     "READ_CONTROL_SHUNT_AMPLIFIER_REG", "READ_CONTROL_VOLTAGE_REGULATOR_REG",
     "READ_CONTROL_VDS_SENSE_REG"}

(***************************************************************************)
(* Unsigned arithmetic.  BitAnd is the C operator & on naturals; a left    *)
(* shift is a multiplication and a right shift a division by a power of 2. *)
(***************************************************************************)
BitAndOfBits[a \in Nat, b \in Nat] ==
    IF a = 0 \/ b = 0 THEN 0
    ELSE (a % 2) * (b % 2) + 2 * BitAndOfBits[a \div 2, b \div 2]

BitAnd(a, b) == BitAndOfBits[a, b]

BitOrOfBits[a \in Nat, b \in Nat] ==
    IF a = 0 THEN b
    ELSE IF b = 0 THEN a
    ELSE (IF (a % 2) + (b % 2) > 0 THEN 1 ELSE 0) + 2 * BitOrOfBits[a \div 2, b \div 2]

BitOr(a, b) == BitOrOfBits[a, b]

Shl(a, n) == a * (2 ^ n)
Shr(a, n) == a \div (2 ^ n)
U16(a) == a % 65536

\* A uint32_t is held as the integer with the same 32-bit pattern: the values
\* below 2^31 as themselves, the values from 2^31 to 2^32 - 1 as value - 2^32
\* (2^32 - 1 is -1).  Addition of small amounts is then the addition of the
\* code, wrap included; U32GreaterEq is the unsigned >= of the code, and
\* U32Halves gives the upper and the lower 16 bits of the value.
U32GreaterEq(a, b) == IF (a < 0) = (b < 0) THEN a >= b ELSE a < 0
U32Halves(a) == <<(a \div 65536) % 65536, a % 65536>>
\* (hi * 2^16 + lo + 1) modulo 2^32, in halves
U32HalvesSuccessor(halves) ==
    IF halves[2] = 65535 THEN <<(halves[1] + 1) % 65536, 0>>
                         ELSE <<halves[1], halves[2] + 1>>

(***************************************************************************)
(* Comparator masks (drv8305_macros.h).                                    *)
(***************************************************************************)
DRV8305_CTRL05_CTRL06_TDRIVE_MASK == Shl(3, 8)
DRV8305_CTRL05_CTRL06_ISINK_MASK == Shl(15, 4)
DRV8305_CTRL05_CTRL06_ISOURCE_MASK == Shl(15, 0)

DRV8305_CTRL07_VCPH_FREQ_MASK == Shl(1, 10)
DRV8305_CTRL07_COMM_OPTION_MASK == Shl(1, 9)
DRV8305_CTRL07_PWM_MODE_MASK == Shl(3, 7)
DRV8305_CTRL07_DEAD_TIME_MASK == Shl(7, 4)
DRV8305_CTRL07_TBLANK_MASK == Shl(3, 2)
DRV8305_CTRL07_TVDS_MASK == Shl(3, 0)

DRV8305_CTRL09_FLIP_OTSD_MASK == Shl(1, 10)
DRV8305_CTRL09_DIS_PVDD_UVLO2_MASK == Shl(1, 9)
DRV8305_CTRL09_DIS_GDRV_FAULT_MASK == Shl(1, 8)
DRV8305_CTRL09_EN_SNS_CLAMP_MASK == Shl(1, 7)
DRV8305_CTRL09_WD_DLY_MASK == Shl(3, 5)
DRV8305_CTRL09_DIS_SNS_OCP_MASK == Shl(1, 4)
DRV8305_CTRL09_WD_EN_MASK == Shl(1, 3)
DRV8305_CTRL09_SLEEP_MASK == Shl(1, 2)
DRV8305_CTRL09_CLR_FLTS_MASK == Shl(1, 1)
DRV8305_CTRL09_SET_VCPH_UV_MASK == Shl(1, 0)

DRV8305_CTRL0A_DC_CAL_CH3_MASK == Shl(1, 10)
DRV8305_CTRL0A_DC_CAL_CH2_MASK == Shl(1, 9)
DRV8305_CTRL0A_DC_CAL_CH1_MASK == Shl(1, 8)
DRV8305_CTRL0A_CS_BLANK_MASK == Shl(3, 6)
DRV8305_CTRL0A_GAIN_CH3_MASK == Shl(7, 4)
DRV8305_CTRL0A_GAIN_CH2_MASK == Shl(7, 2)
DRV8305_CTRL0A_GAIN_CH1_MASK == Shl(7, 0)

DRV8305_CTRL0B_VREF_SCALE_MASK == Shl(3, 8)
DRV8305_CTRL0B_SLEEP_DELAY_MASK == Shl(3, 3)
DRV8305_CTRL0B_DIS_VREG_PWRGD_MASK == Shl(1, 2)
DRV8305_CTRL0B_VREG_UV_LEVEL_MASK == Shl(3, 0)

DRV8305_CTRL0C_VDS_LEVEL_MASK == Shl(31, 3)
DRV8305_CTRL0C_VDS_MODE_MASK == Shl(7, 0)

(***************************************************************************)
(* Wire codec (drv8305_api.c).                                             *)
(***************************************************************************)
\* a faulty variant that does not mask the address; C21 must reject it
drv8305_spi_write_packet_create_unmasked_address(register_type, data) ==
    U16(BitOr(Shl(register_type, 11), BitAnd(data, 2047)))

drv8305_spi_write_packet_create(register_type, data) ==
    U16(BitOr(Shl(BitAnd(register_type, 15), 11), BitAnd(data, 2047)))

drv8305_spi_read_packet_create(register_type) ==
    U16(BitOr(Shl(1, 15), Shl(BitAnd(register_type, 15), 11)))

\* a faulty variant that keeps 12 bits; C20 must reject it
drv8305_spi_response_packet_create_12_bits(data) == BitAnd(data, 4095)

drv8305_spi_response_packet_create(data) == BitAnd(data, 2047)

(***************************************************************************)
(* Per-register pack macros (drv8305_control_registers_definitions.h).     *)
(***************************************************************************)
DRV8305_PACK_CTRL05(cfg) ==
    U16(BitOr(BitOr(Shl(BitAnd(cfg.tdrive, 3), 8),
                    Shl(BitAnd(cfg.isink, 15), 4)),
              Shl(BitAnd(cfg.isource, 15), 0)))

DRV8305_PACK_CTRL06(cfg) ==
    U16(BitOr(BitOr(Shl(BitAnd(cfg.tdrive, 3), 8),
                    Shl(BitAnd(cfg.isink, 15), 4)),
              Shl(BitAnd(cfg.isource, 15), 0)))

DRV8305_PACK_CTRL07(cfg) ==
    U16(BitOr(BitOr(BitOr(BitOr(BitOr(Shl(BitAnd(cfg.vcph_freq, 1), 10),
                                      Shl(BitAnd(cfg.comm_option, 1), 9)),
                                Shl(BitAnd(cfg.pwm_mode, 3), 7)),
                          Shl(BitAnd(cfg.dead_time, 7), 4)),
                    Shl(BitAnd(cfg.tblank, 3), 2)),
              Shl(BitAnd(cfg.tvds, 3), 0)))

DRV8305_PACK_CTRL09(cfg) ==
    U16(BitOr(BitOr(BitOr(BitOr(BitOr(BitOr(BitOr(BitOr(BitOr(
            Shl(BitAnd(cfg.flip_otsd, 1), 10),
            Shl(BitAnd(cfg.dis_pvdd_uvlo2, 1), 9)),
            Shl(BitAnd(cfg.dis_gdrv_fault, 1), 8)),
            Shl(BitAnd(cfg.en_sns_clamp, 1), 7)),
            Shl(BitAnd(cfg.wd_dly, 3), 5)),
            Shl(BitAnd(cfg.dis_sns_ocp, 1), 4)),
            Shl(BitAnd(cfg.wd_en, 1), 3)),
            Shl(BitAnd(cfg.sleep, 1), 2)),
            Shl(BitAnd(cfg.clr_flts, 1), 1)),
            Shl(BitAnd(cfg.set_vcph_uv, 1), 0)))

DRV8305_PACK_CTRL0A(cfg) ==
    U16(BitOr(BitOr(BitOr(BitOr(BitOr(BitOr(
            Shl(BitAnd(cfg.dc_cal_ch3, 1), 10),
            Shl(BitAnd(cfg.dc_cal_ch2, 1), 9)),
            Shl(BitAnd(cfg.dc_cal_ch1, 1), 8)),
            Shl(BitAnd(cfg.cs_blank, 3), 6)),
            Shl(BitAnd(cfg.gain_cs3, 3), 4)),
            Shl(BitAnd(cfg.gain_cs2, 3), 2)),
            Shl(BitAnd(cfg.gain_cs1, 3), 0)))

DRV8305_PACK_CTRL0B(cfg) ==
    U16(BitOr(BitOr(BitOr(Shl(BitAnd(cfg.vref_scale, 3), 8),
                          Shl(BitAnd(cfg.sleep_dly, 3), 3)),
                    Shl(BitAnd(cfg.dis_vreg_pwrgd, 1), 2)),
              Shl(BitAnd(cfg.vreg_uv_level, 3), 0)))

DRV8305_PACK_CTRL0C(cfg) ==
    U16(BitOr(Shl(BitAnd(cfg.vds_level, 31), 3),
              Shl(BitAnd(cfg.vds_mode, 7), 0)))

(***************************************************************************)
(* Confirmation comparators (drv8305_control_registers_handlers.c).  Each  *)
(* operator is the value the handler stores into its confirmation flag for *)
(* the configured sub-record cfg and the echoed value data.                *)
(***************************************************************************)
drv8305_hs_gate_drive_register_handler(cfg, data) ==
    LET tdrive  == Shr(BitAnd(data, DRV8305_CTRL05_CTRL06_TDRIVE_MASK), 8)
        isink   == Shr(BitAnd(data, DRV8305_CTRL05_CTRL06_ISINK_MASK), 4)
        isource == Shr(BitAnd(data, DRV8305_CTRL05_CTRL06_ISOURCE_MASK), 0)
    IN  /\ tdrive = cfg.tdrive
        /\ isink = cfg.isink
        /\ isource = cfg.isource

drv8305_ls_gate_drive_register_handler(cfg, data) ==
    LET tdrive  == Shr(BitAnd(data, DRV8305_CTRL05_CTRL06_TDRIVE_MASK), 8)
        isink   == Shr(BitAnd(data, DRV8305_CTRL05_CTRL06_ISINK_MASK), 4)
        isource == Shr(BitAnd(data, DRV8305_CTRL05_CTRL06_ISOURCE_MASK), 0)
    IN  /\ tdrive = cfg.tdrive
        /\ isink = cfg.isink
        /\ isource = cfg.isource

drv8305_gate_drive_register_handler(cfg, data) ==
    LET vcph_freq   == Shr(BitAnd(data, DRV8305_CTRL07_VCPH_FREQ_MASK), 10)
        comm_option == Shr(BitAnd(data, DRV8305_CTRL07_COMM_OPTION_MASK), 9)
        pwm_mode    == Shr(BitAnd(data, DRV8305_CTRL07_PWM_MODE_MASK), 7)
        dead_time   == Shr(BitAnd(data, DRV8305_CTRL07_DEAD_TIME_MASK), 4)
        tblank      == Shr(BitAnd(data, DRV8305_CTRL07_TBLANK_MASK), 2)
        tvds        == Shr(BitAnd(data, DRV8305_CTRL07_TVDS_MASK), 0)
    IN  /\ vcph_freq = cfg.vcph_freq
        /\ comm_option = cfg.comm_option
        /\ pwm_mode = cfg.pwm_mode
        /\ dead_time = cfg.dead_time
        /\ tblank = cfg.tblank
        /\ tvds = cfg.tvds

\* a faulty variant that compares clr_flts too; C6 must reject it
drv8305_ic_operation_register_handler_all_fields(cfg, data) ==
    LET flip_otsd      == Shr(BitAnd(data, DRV8305_CTRL09_FLIP_OTSD_MASK), 10)
        dis_pvdd_uvlo2 == Shr(BitAnd(data, DRV8305_CTRL09_DIS_PVDD_UVLO2_MASK), 9)
        dis_gdrv_fault == Shr(BitAnd(data, DRV8305_CTRL09_DIS_GDRV_FAULT_MASK), 8)
        en_sns_clamp   == Shr(BitAnd(data, DRV8305_CTRL09_EN_SNS_CLAMP_MASK), 7)
        wd_dly         == Shr(BitAnd(data, DRV8305_CTRL09_WD_DLY_MASK), 5)
        dis_sns_ocp    == Shr(BitAnd(data, DRV8305_CTRL09_DIS_SNS_OCP_MASK), 4)
        wd_en          == Shr(BitAnd(data, DRV8305_CTRL09_WD_EN_MASK), 3)
        sleep          == Shr(BitAnd(data, DRV8305_CTRL09_SLEEP_MASK), 2)
        clr_flts       == Shr(BitAnd(data, DRV8305_CTRL09_CLR_FLTS_MASK), 1)
        set_vcph_uv    == Shr(BitAnd(data, DRV8305_CTRL09_SET_VCPH_UV_MASK), 0)
    IN  /\ flip_otsd = cfg.flip_otsd
        /\ dis_pvdd_uvlo2 = cfg.dis_pvdd_uvlo2
        /\ dis_gdrv_fault = cfg.dis_gdrv_fault
        /\ en_sns_clamp = cfg.en_sns_clamp
        /\ wd_dly = cfg.wd_dly
        /\ dis_sns_ocp = cfg.dis_sns_ocp
        /\ wd_en = cfg.wd_en
        /\ sleep = cfg.sleep
        /\ clr_flts = cfg.clr_flts
        /\ set_vcph_uv = cfg.set_vcph_uv

\* the comparison of clr_flts is commented out in the source
drv8305_ic_operation_register_handler(cfg, data) ==
    LET flip_otsd      == Shr(BitAnd(data, DRV8305_CTRL09_FLIP_OTSD_MASK), 10)
        dis_pvdd_uvlo2 == Shr(BitAnd(data, DRV8305_CTRL09_DIS_PVDD_UVLO2_MASK), 9)
        dis_gdrv_fault == Shr(BitAnd(data, DRV8305_CTRL09_DIS_GDRV_FAULT_MASK), 8)
        en_sns_clamp   == Shr(BitAnd(data, DRV8305_CTRL09_EN_SNS_CLAMP_MASK), 7)
        wd_dly         == Shr(BitAnd(data, DRV8305_CTRL09_WD_DLY_MASK), 5)
        dis_sns_ocp    == Shr(BitAnd(data, DRV8305_CTRL09_DIS_SNS_OCP_MASK), 4)
        wd_en          == Shr(BitAnd(data, DRV8305_CTRL09_WD_EN_MASK), 3)
        sleep          == Shr(BitAnd(data, DRV8305_CTRL09_SLEEP_MASK), 2)
        clr_flts       == Shr(BitAnd(data, DRV8305_CTRL09_CLR_FLTS_MASK), 1)
        set_vcph_uv    == Shr(BitAnd(data, DRV8305_CTRL09_SET_VCPH_UV_MASK), 0)
    IN  /\ flip_otsd = cfg.flip_otsd
        /\ dis_pvdd_uvlo2 = cfg.dis_pvdd_uvlo2
        /\ dis_gdrv_fault = cfg.dis_gdrv_fault
        /\ en_sns_clamp = cfg.en_sns_clamp
        /\ wd_dly = cfg.wd_dly
        /\ dis_sns_ocp = cfg.dis_sns_ocp
        /\ wd_en = cfg.wd_en
        /\ sleep = cfg.sleep
        /\ set_vcph_uv = cfg.set_vcph_uv

drv8305_shunt_amplifier_register_handler(cfg, data) ==
    LET dc_cal_ch3 == Shr(BitAnd(data, DRV8305_CTRL0A_DC_CAL_CH3_MASK), 10)
        dc_cal_ch2 == Shr(BitAnd(data, DRV8305_CTRL0A_DC_CAL_CH2_MASK), 9)
        dc_cal_ch1 == Shr(BitAnd(data, DRV8305_CTRL0A_DC_CAL_CH1_MASK), 8)
        cs_blank   == Shr(BitAnd(data, DRV8305_CTRL0A_CS_BLANK_MASK), 6)
        gain_cs3   == Shr(BitAnd(data, DRV8305_CTRL0A_GAIN_CH3_MASK), 4)
        gain_cs2   == Shr(BitAnd(data, DRV8305_CTRL0A_GAIN_CH2_MASK), 2)
        gain_cs1   == Shr(BitAnd(data, DRV8305_CTRL0A_GAIN_CH1_MASK), 0)
    IN  /\ dc_cal_ch3 = cfg.dc_cal_ch3
        /\ dc_cal_ch2 = cfg.dc_cal_ch2
        /\ dc_cal_ch1 = cfg.dc_cal_ch1
        /\ cs_blank = cfg.cs_blank
        /\ gain_cs3 = cfg.gain_cs3
        /\ gain_cs2 = cfg.gain_cs2
        /\ gain_cs1 = cfg.gain_cs1

drv8305_voltage_regulator_register_handler(cfg, data) ==
    LET vref_scale     == Shr(BitAnd(data, DRV8305_CTRL0B_VREF_SCALE_MASK), 8)
        sleep_dly      == Shr(BitAnd(data, DRV8305_CTRL0B_SLEEP_DELAY_MASK), 3)
        dis_vreg_pwrgd == Shr(BitAnd(data, DRV8305_CTRL0B_DIS_VREG_PWRGD_MASK), 2)
        vreg_uv_level  == Shr(BitAnd(data, DRV8305_CTRL0B_VREG_UV_LEVEL_MASK), 0)
    IN  /\ vref_scale = cfg.vref_scale
        /\ sleep_dly = cfg.sleep_dly
        /\ dis_vreg_pwrgd = cfg.dis_vreg_pwrgd
        /\ vreg_uv_level = cfg.vreg_uv_level

drv8305_vds_sense_register_handler(cfg, data) ==
    LET vds_level == Shr(BitAnd(data, DRV8305_CTRL0C_VDS_LEVEL_MASK), 3)
        vds_mode  == Shr(BitAnd(data, DRV8305_CTRL0C_VDS_MODE_MASK), 0)
    IN  /\ vds_level = cfg.vds_level
        /\ vds_mode = cfg.vds_mode

(***************************************************************************)
(* Configuration records.  DatasheetDefaults is the initializer of         *)
(* default_configuration (drv8305_configuration.c); AlternateRecord is a   *)
(* caller-built record, every field within its bit width and every         *)
(* sub-record different from the defaults.                                 *)
(***************************************************************************)
DatasheetDefaults ==
    [hs_gate_drive |-> [tdrive |-> 3, isink |-> 4, isource |-> 4],
     ls_gate_drive |-> [tdrive |-> 3, isink |-> 4, isource |-> 4],
     gate_drive |-> [vcph_freq |-> 0, comm_option |-> 1, pwm_mode |-> 0,
                     dead_time |-> 1, tblank |-> 1, tvds |-> 2],
     ic_operation |-> [flip_otsd |-> 0, dis_pvdd_uvlo2 |-> 0, dis_gdrv_fault |-> 0,
                       en_sns_clamp |-> 0, wd_dly |-> 1, dis_sns_ocp |-> 0,
                       wd_en |-> 0, sleep |-> 0, clr_flts |-> 1, set_vcph_uv |-> 0],
     shunt_amplifier |-> [dc_cal_ch3 |-> 0, dc_cal_ch2 |-> 0, dc_cal_ch1 |-> 0,
                          cs_blank |-> 0, gain_cs3 |-> 0, gain_cs2 |-> 0, gain_cs1 |-> 0],
     voltage_regulator |-> [vref_scale |-> 1, sleep_dly |-> 1, dis_vreg_pwrgd |-> 0,
                            vreg_uv_level |-> 2],
     vds_sense |-> [vds_level |-> 25, vds_mode |-> 0]]

AlternateRecord ==
    [hs_gate_drive |-> [tdrive |-> 1, isink |-> 9, isource |-> 11],
     ls_gate_drive |-> [tdrive |-> 2, isink |-> 7, isource |-> 5],
     gate_drive |-> [vcph_freq |-> 1, comm_option |-> 0, pwm_mode |-> 2,
                     dead_time |-> 5, tblank |-> 3, tvds |-> 1],
     ic_operation |-> [flip_otsd |-> 1, dis_pvdd_uvlo2 |-> 0, dis_gdrv_fault |-> 1,
                       en_sns_clamp |-> 1, wd_dly |-> 2, dis_sns_ocp |-> 1,
                       wd_en |-> 1, sleep |-> 0, clr_flts |-> 0, set_vcph_uv |-> 1],
     shunt_amplifier |-> [dc_cal_ch3 |-> 0, dc_cal_ch2 |-> 1, dc_cal_ch1 |-> 0,
                          cs_blank |-> 2, gain_cs3 |-> 0, gain_cs2 |-> 0, gain_cs1 |-> 3],
     voltage_regulator |-> [vref_scale |-> 2, sleep_dly |-> 3, dis_vreg_pwrgd |-> 1,
                            vreg_uv_level |-> 1],
     vds_sense |-> [vds_level |-> 6, vds_mode |-> 2]]

\* the defaults with every shunt amplifier channel at 20 V/V (DRV8305_GAIN_20V_V)
Gain20Record ==
    [DatasheetDefaults EXCEPT
        !.shunt_amplifier = [dc_cal_ch3 |-> 0, dc_cal_ch2 |-> 0, dc_cal_ch1 |-> 0,
                             cs_blank |-> 0, gain_cs3 |-> 1, gain_cs2 |-> 1,
                             gain_cs1 |-> 1]]

ConfigurationRecords == {DatasheetDefaults, AlternateRecord, Gain20Record}

(***************************************************************************)
(* State.                                                                  *)
(*   cycle_time .. next_control_state   drv8305_state_machine_t            *)
(*   config, register_manager, configuration_confirmation_flags            *)
(*                                      the other fields of the instance   *)
(*   hw_callbacks                       the hardware callbacks that are    *)
(*                                      not NULL in the instance           *)
(*   default_configuration              the process-wide store             *)
(*   set_call                           the drv8305_set_configuration call *)
(*                                      in progress in another context,    *)
(*                                      between its memset and its memcpy  *)
(*   second                             a second instance, reduced to the  *)
(*                                      fields its control writes depend   *)
(*                                      on                                 *)
(*   io          what the latest operation did at the callback boundary    *)
(* The remaining variables are history variables the properties read:      *)
(*   pass        the sequencer activated last, the register addresses it   *)
(*               has put on the wire since, and which passes are open      *)
(*   since_init  what happened since the latest initialize                 *)
(*   applied     the record loaded by the latest initialize and what was   *)
(*               written to the control registers since                    *)
(*   wait        per level, the target a delay state was entered with and  *)
(*               the ticks counted since (capped at the target)            *)
(*   hist        the ticks counted since the latest Status pass ended or,  *)
(*               before the first one, since the instance was initialized  *)
(*               (capped at the polling interval); the record the owner of *)
(*               the second instance stored last, and the second instance  *)
(*               as it would be had only its owner written the store; the  *)
(*               arguments of the latest packet round trip; the number of  *)
(*               responses that were not the device's                      *)
(***************************************************************************)
VARIABLES cycle_time, delay_time,
          main_state, next_main_state,
          status_state, next_status_state,
          control_state, next_control_state,
          config, register_manager, configuration_confirmation_flags,
          default_configuration,
          hw_callbacks, set_call, second,
          io, pass, since_init, applied, wait, hist

sm_vars == <<cycle_time, delay_time, main_state, next_main_state,
             status_state, next_status_state, control_state, next_control_state>>
self_vars == <<sm_vars, config, register_manager, configuration_confirmation_flags,
               hw_callbacks>>
history_vars == <<pass, since_init, applied, wait, hist>>
context_vars == <<set_call, second>>
vars == <<self_vars, default_configuration, context_vars, io, history_vars>>

\* no packet: a value outside the 16 bits of a packet
NoPacket == Shl(1, 16)
MaxCycle == 500
MaxLog == 7
MaxMissing == 1
MaxGarbled == 1
MaxWrap == 50
MaxCalls == 1
MaxAddressInput == 31
MaxDataInput == 4095

\* the fields of self->hw_callbacks, and those drv8305_api_initialize tests
HardwareCallbacks ==
    {"disable_io", "enable_io", "sleep_io", "wake_up_io",
     "spi_receive_cb", "spi_transmit_cb", "get_fault_pin_status"}

\* a faulty variant that tests the power callbacks only; C12 must reject it
PowerCallbacks == {"disable_io", "enable_io", "sleep_io", "wake_up_io"}

MandatoryCallbacks ==
    {"disable_io", "enable_io", "sleep_io", "wake_up_io",
     "spi_receive_cb", "spi_transmit_cb"}

Levels == {"main", "status", "control"}

(***************************************************************************)
(* The callback boundary.  An operation records the hardware callbacks it  *)
(* invoked, the packet it handed to the transmit callback, the raw value   *)
(* the receive callback returned and the register callback it invoked.     *)
(***************************************************************************)
IoRecord(op, calls, tx, rx, cb_index, cb_data) ==
    [op |-> op, calls |-> calls, tx |-> tx, rx |-> rx,
     cb_index |-> cb_index, cb_data |-> cb_data]

\* a faulty variant that runs the transaction twice; C13 must reject it
TransportCallsTwice ==
    <<"spi_transmit_cb", "spi_receive_cb", "spi_transmit_cb", "spi_receive_cb">>

\* drv8305_spi_read_command_process, drv8305_spi_write_command_process: the
\* callbacks of one transaction, in call order
TransportCalls == <<"spi_transmit_cb", "spi_receive_cb">>

\* a faulty variant in which every hardware callback is invoked twice; C27
\* must reject it
IoQuietCalledTwice(op, calls) ==
    IoRecord(op, calls \o calls, NoPacket, NoPacket, NoPacket, NoPacket)

IoQuiet(op, calls) == IoRecord(op, calls, NoPacket, NoPacket, NoPacket, NoPacket)

PacketAddress(packet) == Shr(packet, 11) % 16
PacketPayload(packet) == packet % 2048
PacketIsRead(packet) == Shr(packet, 15) = 1

(***************************************************************************)
(* drv8305_*_sm_go_to_next_state                                           *)
(***************************************************************************)
\* a faulty variant that leaves the tick counter running; C11 must reject it
drv8305_main_sm_go_to_next_state_keeping_counter(next_state, delay) ==
    /\ UNCHANGED cycle_time
    /\ main_state' = DRV8305_DELAY_STATE
    /\ next_main_state' = next_state
    /\ delay_time' = delay

\* a faulty variant that does not record the pending state; C30 must reject
\* it
drv8305_main_sm_go_to_next_state_losing_pending(next_state, delay) ==
    /\ cycle_time' = 0
    /\ main_state' = DRV8305_DELAY_STATE
    /\ UNCHANGED next_main_state
    /\ delay_time' = delay

drv8305_main_sm_go_to_next_state(next_state, delay) ==
    /\ cycle_time' = 0
    /\ main_state' = DRV8305_DELAY_STATE
    /\ next_main_state' = next_state
    /\ delay_time' = delay

drv8305_status_sm_go_to_next_state(next_state, delay) ==
    /\ cycle_time' = 0
    /\ status_state' = DRV8305_SM_STATUS_CYCLE_DELAY
    /\ next_status_state' = next_state
    /\ delay_time' = delay

drv8305_control_sm_go_to_next_state(next_state, delay) ==
    /\ cycle_time' = 0
    /\ control_state' = DRV8305_SM_CONTROL_CYCLE_DELAY
    /\ next_control_state' = next_state
    /\ delay_time' = delay

(***************************************************************************)
(* drv8305_control_register_XX_parser: the payload packed from the         *)
(* instance's own copy of the configuration.                               *)
(***************************************************************************)
drv8305_control_register_05_parser == DRV8305_PACK_CTRL05(config.hs_gate_drive)
drv8305_control_register_06_parser == DRV8305_PACK_CTRL06(config.ls_gate_drive)
drv8305_control_register_07_parser == DRV8305_PACK_CTRL07(config.gate_drive)
drv8305_control_register_09_parser == DRV8305_PACK_CTRL09(config.ic_operation)
drv8305_control_register_0A_parser == DRV8305_PACK_CTRL0A(config.shunt_amplifier)
drv8305_control_register_0B_parser == DRV8305_PACK_CTRL0B(config.voltage_regulator)
drv8305_control_register_0C_parser == DRV8305_PACK_CTRL0C(config.vds_sense)

(***************************************************************************)
(* Tables over the seven control steps: array index, parser, the           *)
(* confirmation flag the callback of drv8305_app.c updates, and the        *)
(* step's successor (Idle for the last one).                               *)
(***************************************************************************)
ControlIndex(st) ==
    CASE st = DRV8305_SM_CONTROL_HS_GATE_DRIVE_REG -> DRV8305_CONTROL_05_ARRAY_INDEX
      [] st = DRV8305_SM_CONTROL_LS_GATE_DRIVE_REG -> DRV8305_CONTROL_06_ARRAY_INDEX
      [] st = DRV8305_SM_CONTROL_GATE_DRIVE_REG -> DRV8305_CONTROL_07_ARRAY_INDEX
      [] st = DRV8305_SM_CONTROL_IC_OPERATION_REG -> DRV8305_CONTROL_09_ARRAY_INDEX
      [] st = DRV8305_SM_CONTROL_SHUNT_AMPLIFIER_REG -> DRV8305_CONTROL_0A_ARRAY_INDEX
      [] st = DRV8305_SM_CONTROL_VOLTAGE_REGULATOR_REG -> DRV8305_CONTROL_0B_ARRAY_INDEX
      [] st = DRV8305_SM_CONTROL_VDS_SENSE_REG -> DRV8305_CONTROL_0C_ARRAY_INDEX

ControlParser(st) ==
    CASE st = DRV8305_SM_CONTROL_HS_GATE_DRIVE_REG -> drv8305_control_register_05_parser
      [] st = DRV8305_SM_CONTROL_LS_GATE_DRIVE_REG -> drv8305_control_register_06_parser
      [] st = DRV8305_SM_CONTROL_GATE_DRIVE_REG -> drv8305_control_register_07_parser
      [] st = DRV8305_SM_CONTROL_IC_OPERATION_REG -> drv8305_control_register_09_parser
      [] st = DRV8305_SM_CONTROL_SHUNT_AMPLIFIER_REG -> drv8305_control_register_0A_parser
      [] st = DRV8305_SM_CONTROL_VOLTAGE_REGULATOR_REG -> drv8305_control_register_0B_parser
      [] st = DRV8305_SM_CONTROL_VDS_SENSE_REG -> drv8305_control_register_0C_parser

ControlField(st) ==
    CASE st = DRV8305_SM_CONTROL_HS_GATE_DRIVE_REG -> "hs_gate_drive"
      [] st = DRV8305_SM_CONTROL_LS_GATE_DRIVE_REG -> "ls_gate_drive"
      [] st = DRV8305_SM_CONTROL_GATE_DRIVE_REG -> "gate_drive"
      [] st = DRV8305_SM_CONTROL_IC_OPERATION_REG -> "ic_operation"
      [] st = DRV8305_SM_CONTROL_SHUNT_AMPLIFIER_REG -> "shunt_amplifier"
      [] st = DRV8305_SM_CONTROL_VOLTAGE_REGULATOR_REG -> "voltage_regulator"
      [] st = DRV8305_SM_CONTROL_VDS_SENSE_REG -> "vds_sense"

\* the control callbacks of drv8305_app.c, each forwarding to its handler
ControlCallback(field, cfg, data) ==
    CASE field = "hs_gate_drive" -> drv8305_hs_gate_drive_register_handler(cfg, data)
      [] field = "ls_gate_drive" -> drv8305_ls_gate_drive_register_handler(cfg, data)
      [] field = "gate_drive" -> drv8305_gate_drive_register_handler(cfg, data)
      [] field = "ic_operation" -> drv8305_ic_operation_register_handler(cfg, data)
      [] field = "shunt_amplifier" -> drv8305_shunt_amplifier_register_handler(cfg, data)
      [] field = "voltage_regulator" -> drv8305_voltage_regulator_register_handler(cfg, data)
      [] field = "vds_sense" -> drv8305_vds_sense_register_handler(cfg, data)

ControlSuccessorIntoReadStates(st) ==
    CASE st = DRV8305_SM_CONTROL_HS_GATE_DRIVE_REG -> DRV8305_SM_CONTROL_LS_GATE_DRIVE_REG
      [] st = DRV8305_SM_CONTROL_LS_GATE_DRIVE_REG -> DRV8305_SM_CONTROL_GATE_DRIVE_REG
      [] st = DRV8305_SM_CONTROL_GATE_DRIVE_REG -> DRV8305_SM_CONTROL_IC_OPERATION_REG
      [] st = DRV8305_SM_CONTROL_IC_OPERATION_REG -> DRV8305_SM_CONTROL_SHUNT_AMPLIFIER_REG
      [] st = DRV8305_SM_CONTROL_SHUNT_AMPLIFIER_REG -> DRV8305_SM_CONTROL_VOLTAGE_REGULATOR_REG
      [] st = DRV8305_SM_CONTROL_VOLTAGE_REGULATOR_REG -> "READ_CONTROL_VDS_SENSE_REG"

ControlSuccessor(st) ==
    CASE st = DRV8305_SM_CONTROL_HS_GATE_DRIVE_REG -> DRV8305_SM_CONTROL_LS_GATE_DRIVE_REG
      [] st = DRV8305_SM_CONTROL_LS_GATE_DRIVE_REG -> DRV8305_SM_CONTROL_GATE_DRIVE_REG
      [] st = DRV8305_SM_CONTROL_GATE_DRIVE_REG -> DRV8305_SM_CONTROL_IC_OPERATION_REG
      [] st = DRV8305_SM_CONTROL_IC_OPERATION_REG -> DRV8305_SM_CONTROL_SHUNT_AMPLIFIER_REG
      [] st = DRV8305_SM_CONTROL_SHUNT_AMPLIFIER_REG -> DRV8305_SM_CONTROL_VOLTAGE_REGULATOR_REG
      [] st = DRV8305_SM_CONTROL_VOLTAGE_REGULATOR_REG -> DRV8305_SM_CONTROL_VDS_SENSE_REG

StatusIndexPastTheStatusSlots(st) ==
    CASE st = DRV8305_SM_STATUS_WARNING_REG -> DRV8305_STATUS_01_ARRAY_INDEX
      [] st = DRV8305_SM_STATUS_OV_VDS_REG -> DRV8305_STATUS_02_ARRAY_INDEX
      [] st = DRV8305_SM_STATUS_IC_FAULTS_REG -> DRV8305_STATUS_03_ARRAY_INDEX
      [] st = DRV8305_SM_STATUS_VGS_FAULTS_REG -> DRV8305_CONTROL_05_ARRAY_INDEX

StatusIndex(st) ==
    CASE st = DRV8305_SM_STATUS_WARNING_REG -> DRV8305_STATUS_01_ARRAY_INDEX
      [] st = DRV8305_SM_STATUS_OV_VDS_REG -> DRV8305_STATUS_02_ARRAY_INDEX
      [] st = DRV8305_SM_STATUS_IC_FAULTS_REG -> DRV8305_STATUS_03_ARRAY_INDEX
      [] st = DRV8305_SM_STATUS_VGS_FAULTS_REG -> DRV8305_STATUS_04_ARRAY_INDEX

StatusSuccessor(st) ==
    CASE st = DRV8305_SM_STATUS_WARNING_REG -> DRV8305_SM_STATUS_OV_VDS_REG
      [] st = DRV8305_SM_STATUS_OV_VDS_REG -> DRV8305_SM_STATUS_IC_FAULTS_REG
      [] st = DRV8305_SM_STATUS_IC_FAULTS_REG -> DRV8305_SM_STATUS_VGS_FAULTS_REG

(***************************************************************************)
(* drv8305_spi_read_command_process / drv8305_spi_write_command_process:   *)
(* the packet handed to the transmit callback, and the value returned for  *)
(* the raw value rx of the receive callback.                               *)
(***************************************************************************)
drv8305_spi_read_command_tx(drv8305_register) ==
    drv8305_spi_read_packet_create(drv8305_register)

\* a faulty variant that sends the read packet; C23 must reject it
drv8305_spi_write_command_tx_as_read(drv8305_register, data) ==
    drv8305_spi_read_packet_create(drv8305_register)

drv8305_spi_write_command_tx(drv8305_register, data) ==
    drv8305_spi_write_packet_create(drv8305_register, data)

\* a faulty variant that stores the raw word; C24 must reject it
drv8305_spi_command_rx_raw(rx) == rx

drv8305_spi_command_rx(rx) == drv8305_spi_response_packet_create(rx)

(***************************************************************************)
(* drv8305_status_register_process_polling                                 *)
(***************************************************************************)
drv8305_status_register_process_polling(rx) ==
    IF status_state = DRV8305_SM_STATUS_CYCLE_DELAY
    THEN /\ status_state' = IF U32GreaterEq(cycle_time, delay_time)
                            THEN next_status_state ELSE status_state
         /\ io' = IoQuiet("polling", <<>>)
         /\ UNCHANGED <<cycle_time, delay_time, main_state, next_main_state,
                        next_status_state, register_manager>>
    ELSE LET index == StatusIndex(status_state)
             tx    == drv8305_spi_read_command_tx(register_manager[index].type)
             data  == drv8305_spi_command_rx(rx)
         IN  /\ register_manager' = [register_manager EXCEPT ![index].data = data]
             /\ io' = IoRecord("polling", TransportCalls, tx, rx, index, data)
             /\ IF status_state = DRV8305_SM_STATUS_VGS_FAULTS_REG
                THEN /\ drv8305_main_sm_go_to_next_state(
                            DRV8305_IDLE_STATE, DRV8305_STANDARD_TASK_DELAY_TIMEOUT)
                     /\ UNCHANGED <<status_state, next_status_state>>
                ELSE /\ drv8305_status_sm_go_to_next_state(
                            StatusSuccessor(status_state),
                            DRV8305_STANDARD_TASK_DELAY_TIMEOUT)
                     /\ UNCHANGED <<main_state, next_main_state>>

(***************************************************************************)
(* drv8305_control_register_process_polling                                *)
(***************************************************************************)
drv8305_control_register_process_polling(rx) ==
    IF control_state = DRV8305_SM_CONTROL_CYCLE_DELAY
    THEN /\ control_state' = IF U32GreaterEq(cycle_time, delay_time)
                             THEN next_control_state ELSE control_state
         /\ io' = IoQuiet("polling", <<>>)
         /\ UNCHANGED <<cycle_time, delay_time, main_state, next_main_state,
                        next_control_state, register_manager,
                        configuration_confirmation_flags>>
    ELSE LET index  == ControlIndex(control_state)
             field  == ControlField(control_state)
             packed == ControlParser(control_state)
             tx     == drv8305_spi_write_command_tx(register_manager[index].type, packed)
             data   == drv8305_spi_command_rx(rx)
         IN  /\ register_manager' = [register_manager EXCEPT ![index].data = data]
             /\ io' = IoRecord("polling", TransportCalls, tx, rx, index, data)
             /\ configuration_confirmation_flags' =
                    [configuration_confirmation_flags EXCEPT
                        ![field] = ControlCallback(field, config[field], data)]
             /\ IF control_state = DRV8305_SM_CONTROL_VDS_SENSE_REG
                THEN /\ drv8305_main_sm_go_to_next_state(
                            DRV8305_IDLE_STATE, DRV8305_REGISTER_SWITCH_DELAY_MS)
                     /\ UNCHANGED <<control_state, next_control_state>>
                ELSE /\ drv8305_control_sm_go_to_next_state(
                            ControlSuccessor(control_state),
                            DRV8305_REGISTER_SWITCH_DELAY_MS)
                     /\ UNCHANGED <<main_state, next_main_state>>

(***************************************************************************)
(* A direct call of one of the seven public register handlers on the       *)
(* instance, st naming the control register.                               *)
(***************************************************************************)
drv8305_control_register_handler(st, data) ==
    /\ configuration_confirmation_flags' =
           [configuration_confirmation_flags EXCEPT
               ![ControlField(st)] =
                   ControlCallback(ControlField(st), config[ControlField(st)], data)]
    /\ io' = IoRecord("handler", <<>>, NoPacket, NoPacket, ControlIndex(st), data)
    /\ UNCHANGED <<sm_vars, config, register_manager, default_configuration,
                   hw_callbacks>>

(***************************************************************************)
(* drv8305_api_master_sm_polling: one poll call; rx is the raw value the   *)
(* receive callback returns if this poll performs a transaction.           *)
(***************************************************************************)
drv8305_api_master_sm_polling(rx) ==
    /\ UNCHANGED <<config, default_configuration,
                   hw_callbacks>>
    /\ CASE main_state = DRV8305_INIT_STATE ->
              /\ drv8305_main_sm_go_to_next_state(
                     DRV8305_CONTROL_STATE, DRV8305_REGISTER_SWITCH_DELAY_MS)
              /\ io' = IoQuiet("polling", <<"enable_io", "wake_up_io">>)
              /\ UNCHANGED <<status_state, next_status_state, control_state,
                             next_control_state, register_manager,
                             configuration_confirmation_flags>>
         [] main_state = DRV8305_IDLE_STATE ->
              /\ IF U32GreaterEq(cycle_time, DRV8305_STATUS_POLLING_INTERVAL_MS)
                 THEN drv8305_main_sm_go_to_next_state(
                          DRV8305_STATUS_STATE, DRV8305_REGISTER_SWITCH_DELAY_MS)
                 ELSE UNCHANGED <<cycle_time, delay_time, main_state, next_main_state>>
              /\ io' = IoQuiet("polling", <<>>)
              /\ UNCHANGED <<status_state, next_status_state, control_state,
                             next_control_state, register_manager,
                             configuration_confirmation_flags>>
         [] main_state = DRV8305_WAKE_UP_STATE ->
              /\ drv8305_main_sm_go_to_next_state(
                     DRV8305_IDLE_STATE, DRV8305_REGISTER_SWITCH_DELAY_MS)
              /\ io' = IoQuiet("polling", <<"wake_up_io">>)
              /\ UNCHANGED <<status_state, next_status_state, control_state,
                             next_control_state, register_manager,
                             configuration_confirmation_flags>>
         [] main_state = DRV8305_SLEEP_STATE ->
              /\ drv8305_main_sm_go_to_next_state(
                     DRV8305_IDLE_STATE, DRV8305_REGISTER_SWITCH_DELAY_MS)
              /\ io' = IoQuiet("polling", <<"sleep_io">>)
              /\ UNCHANGED <<status_state, next_status_state, control_state,
                             next_control_state, register_manager,
                             configuration_confirmation_flags>>
         [] main_state = DRV8305_STATUS_STATE ->
              /\ drv8305_status_register_process_polling(rx)
              /\ UNCHANGED <<control_state, next_control_state,
                             configuration_confirmation_flags>>
         [] main_state = DRV8305_CONTROL_STATE ->
              /\ drv8305_control_register_process_polling(rx)
              /\ UNCHANGED <<status_state, next_status_state>>
         [] main_state = DRV8305_DELAY_STATE ->
              /\ main_state' = IF U32GreaterEq(cycle_time, delay_time)
                               THEN next_main_state ELSE main_state
              /\ io' = IoQuiet("polling", <<>>)
              /\ UNCHANGED <<cycle_time, delay_time, next_main_state,
                             status_state, next_status_state, control_state,
                             next_control_state, register_manager,
                             configuration_confirmation_flags>>

(***************************************************************************)
(* drv8305_api_timer.  The counter is a uint32_t; the guard keeps the      *)
(* model finite (every comparison of the code is against 50, 250 or 500).  *)
(* drv8305_api_timer_calls is a run of consecutive calls with no other     *)
(* operation in between; drv8305_api_timer_long_run is the run of          *)
(* 2^32 - MaxWrap calls that brings a counter of 0 to MaxWrap ticks before *)
(* its wrap at 2^32.                                                       *)
(***************************************************************************)
\* a faulty variant whose counter is 16 bits wide; C29 must reject it
drv8305_api_timer_calls_16_bit_counter(calls) ==
    /\ cycle_time + calls <= MaxCycle
    /\ cycle_time' = (cycle_time + calls) % 65536
    /\ io' = IoQuiet("timer", <<>>)
    /\ UNCHANGED <<delay_time, main_state, next_main_state, status_state,
                   next_status_state, control_state, next_control_state,
                   config, register_manager, configuration_confirmation_flags,
                   default_configuration,
                   hw_callbacks>>

drv8305_api_timer_calls(calls) ==
    /\ cycle_time + calls <= MaxCycle
    /\ cycle_time' = cycle_time + calls
    /\ io' = IoQuiet("timer", <<>>)
    /\ UNCHANGED <<delay_time, main_state, next_main_state, status_state,
                   next_status_state, control_state, next_control_state,
                   config, register_manager, configuration_confirmation_flags,
                   default_configuration,
                   hw_callbacks>>

drv8305_api_timer == drv8305_api_timer_calls(1)

drv8305_api_timer_long_run ==
    /\ cycle_time = 0
    /\ cycle_time' = cycle_time - MaxWrap
    /\ io' = IoQuiet("timer:run", <<>>)
    /\ UNCHANGED <<delay_time, main_state, next_main_state, status_state,
                   next_status_state, control_state, next_control_state,
                   config, register_manager, configuration_confirmation_flags,
                   default_configuration,
                   hw_callbacks>>

(***************************************************************************)
(* drv8305_api_ic_enable, drv8305_api_ic_disable: the hardware callback    *)
(* and nothing else.                                                       *)
(***************************************************************************)
drv8305_api_ic_enable ==
    /\ io' = IoQuiet("ic_enable", <<"enable_io">>)
    /\ UNCHANGED <<self_vars, default_configuration>>

drv8305_api_ic_disable ==
    /\ io' = IoQuiet("ic_disable", <<"disable_io">>)
    /\ UNCHANGED <<self_vars, default_configuration>>

(***************************************************************************)
(* drv8305_api_confirm_configuration                                       *)
(***************************************************************************)
\* a faulty variant that schedules CONTROL from IDLE only; C9 must reject it
drv8305_api_confirm_configuration_when_idle ==
    /\ IF main_state = DRV8305_IDLE_STATE
       THEN drv8305_main_sm_go_to_next_state(
                DRV8305_CONTROL_STATE, DRV8305_REGISTER_SWITCH_DELAY_MS)
       ELSE UNCHANGED <<cycle_time, delay_time, main_state, next_main_state>>
    /\ io' = IoQuiet("confirm_configuration", <<>>)
    /\ UNCHANGED <<status_state, next_status_state, control_state,
                   next_control_state, config, register_manager,
                   configuration_confirmation_flags, default_configuration,
                   hw_callbacks>>

\* a faulty variant that also clears the confirmation flags; C19 must
\* reject it
drv8305_api_confirm_configuration_clearing_flags ==
    /\ drv8305_main_sm_go_to_next_state(
           DRV8305_CONTROL_STATE, DRV8305_REGISTER_SWITCH_DELAY_MS)
    /\ io' = IoQuiet("confirm_configuration", <<>>)
    /\ configuration_confirmation_flags' =
           [field \in DOMAIN configuration_confirmation_flags |-> FALSE]
    /\ UNCHANGED <<status_state, next_status_state, control_state,
                   next_control_state, config, register_manager,
                   default_configuration, hw_callbacks>>

drv8305_api_confirm_configuration ==
    /\ drv8305_main_sm_go_to_next_state(
           DRV8305_CONTROL_STATE, DRV8305_REGISTER_SWITCH_DELAY_MS)
    /\ io' = IoQuiet("confirm_configuration", <<>>)
    /\ UNCHANGED <<status_state, next_status_state, control_state,
                   next_control_state, config, register_manager,
                   configuration_confirmation_flags, default_configuration,
                   hw_callbacks>>

(***************************************************************************)
(* drv8305_set_configuration: memset, then memcpy of the caller's record   *)
(* into the store.                                                         *)
(***************************************************************************)
\* a faulty variant that also writes the instance; C4 must reject it
drv8305_set_configuration_into_instance(cfg) ==
    /\ default_configuration' = cfg
    /\ config' = cfg
    /\ io' = IoQuiet("set_configuration", <<>>)
    /\ UNCHANGED <<sm_vars, register_manager, configuration_confirmation_flags,
                   hw_callbacks>>

drv8305_set_configuration(cfg) ==
    /\ default_configuration' = cfg
    /\ io' = IoQuiet("set_configuration", <<>>)
    /\ UNCHANGED self_vars

(***************************************************************************)
(* drv8305_api_initialize; it returns at once when a mandatory callback is *)
(* NULL.  before is what the caller invoked first (drv8305_reset calls the *)
(* disable and sleep callbacks itself).  The pending states and the        *)
(* confirmation flags are not written.                                     *)
(***************************************************************************)
\* a faulty variant that leaves status_state and control_state as they
\* were; C10 must reject it
drv8305_api_initialize_keeping_sequencers(before) ==
    IF ~(MandatoryCallbacks \subseteq hw_callbacks)
    THEN /\ io' = IoQuiet("initialize", before)
         /\ UNCHANGED <<self_vars, default_configuration>>
    ELSE  /\ cycle_time' = 0
          /\ delay_time' = 0
          /\ main_state' = DRV8305_INIT_STATE
          /\ config' = default_configuration
          /\ register_manager' =
                 [index \in 0..(DRV8305_NUMBER_OF_REGISTERS - 1) |->
                     [data |-> 0, type |-> drv8305_registers[index]]]
          /\ io' = IoQuiet("initialize", before \o <<"wake_up_io", "disable_io">>)
          /\ UNCHANGED <<status_state, control_state,
                         next_main_state, next_status_state, next_control_state,
                         configuration_confirmation_flags, default_configuration,
                         hw_callbacks>>

\* a faulty variant that leaves the register slots as they were; C26 must
\* reject it
drv8305_api_initialize_keeping_slots(before) ==
    IF ~(MandatoryCallbacks \subseteq hw_callbacks)
    THEN /\ io' = IoQuiet("initialize", before)
         /\ UNCHANGED <<self_vars, default_configuration>>
    ELSE  /\ cycle_time' = 0
          /\ delay_time' = 0
          /\ main_state' = DRV8305_INIT_STATE
          /\ status_state' = DRV8305_SM_STATUS_WARNING_REG
          /\ control_state' = DRV8305_SM_CONTROL_HS_GATE_DRIVE_REG
          /\ config' = default_configuration
          /\ io' = IoQuiet("initialize", before \o <<"wake_up_io", "disable_io">>)
          /\ UNCHANGED <<next_main_state, next_status_state, next_control_state,
                         register_manager, configuration_confirmation_flags,
                         default_configuration, hw_callbacks>>

drv8305_api_initialize(before) ==
    IF ~(MandatoryCallbacks \subseteq hw_callbacks)
    THEN /\ io' = IoQuiet("initialize", before)
         /\ UNCHANGED <<self_vars, default_configuration>>
    ELSE  /\ cycle_time' = 0
          /\ delay_time' = 0
          /\ main_state' = DRV8305_INIT_STATE
          /\ status_state' = DRV8305_SM_STATUS_WARNING_REG
          /\ control_state' = DRV8305_SM_CONTROL_HS_GATE_DRIVE_REG
          /\ config' = default_configuration
          /\ register_manager' =
                 [index \in 0..(DRV8305_NUMBER_OF_REGISTERS - 1) |->
                     [data |-> 0, type |-> drv8305_registers[index]]]
          /\ io' = IoQuiet("initialize", before \o <<"wake_up_io", "disable_io">>)
          /\ UNCHANGED <<next_main_state, next_status_state, next_control_state,
                         configuration_confirmation_flags, default_configuration,
                         hw_callbacks>>

\* drv8305_api_initialize(NULL): the first test of the guard
drv8305_api_initialize_null_self ==
    /\ io' = IoQuiet("initialize(NULL)", <<>>)
    /\ UNCHANGED <<self_vars, default_configuration>>

drv8305_initialize == drv8305_api_initialize(<<>>)

drv8305_reset == drv8305_api_initialize(<<"disable_io", "sleep_io">>)

(***************************************************************************)
(* drv8305_set_configuration run from a context other than the one that    *)
(* drives the instance: its memset and its memcpy are two steps, and other *)
(* operations run in between.  cfg is the pointer argument: the caller's   *)
(* own buffer, or the pointer drv8305_get_configuration returned, which is *)
(* the store itself.  The compiler may drop the memset as a dead store,    *)
(* the memcpy rewriting the whole object; memcpy is taken as one step.     *)
(***************************************************************************)
\* no drv8305_set_configuration call is in progress
NoSetCall == [pc |-> "none"]

ZeroRecord ==
    [sub \in DOMAIN DatasheetDefaults |->
        [field \in DOMAIN DatasheetDefaults[sub] |-> 0]]

StorePointer == [at |-> "store"]

BufferPointer(record) == [at |-> "buffer", value |-> record]

Deref(pointer) ==
    IF pointer.at = "store" THEN default_configuration ELSE pointer.value

drv8305_set_configuration_memset(cfg) ==
    /\ set_call.pc = "none"
    /\ default_configuration' \in {ZeroRecord, default_configuration}
    /\ set_call' = [pc |-> "memcpy", cfg |-> cfg, old |-> Deref(StorePointer),
                    new |-> Deref(cfg)]
    /\ io' = IoQuiet("set_configuration:memset", <<>>)
    /\ UNCHANGED <<self_vars, second>>

drv8305_set_configuration_memcpy ==
    /\ set_call.pc = "memcpy"
    /\ default_configuration' = Deref(set_call.cfg)
    /\ set_call' = NoSetCall
    /\ io' = IoQuiet("set_configuration", <<>>)
    /\ UNCHANGED <<self_vars, second>>

\* the caller assigns fields through the pointer drv8305_get_configuration
\* returned, until the store holds record
drv8305_get_configuration_write(record) ==
    /\ set_call.pc = "none"
    /\ default_configuration' = record
    /\ io' = IoQuiet("get_configuration", <<>>)
    /\ UNCHANGED <<self_vars, context_vars>>

(***************************************************************************)
(* The device behind the transport callbacks: a write is answered with the *)
(* frame written (address echo and payload, the self-clearing clr_flts bit *)
(* of register 0x09 read back as 0), a read with the address echo and no   *)
(* fault bit.                                                              *)
(***************************************************************************)
DeviceResponse(tx) ==
    IF tx = NoPacket THEN NoPacket
    ELSE IF PacketIsRead(tx) THEN Shl(PacketAddress(tx), 11)
    ELSE IF PacketAddress(tx) = DRV8305_CONTROL_09_REG_ADDR
              /\ BitAnd(tx, DRV8305_CTRL09_CLR_FLTS_MASK) # 0
         THEN tx - DRV8305_CTRL09_CLR_FLTS_MASK
    ELSE tx

\* the packet the next poll call hands to the transmit callback, if any
PollTx ==
    IF main_state = DRV8305_STATUS_STATE
          /\ status_state # DRV8305_SM_STATUS_CYCLE_DELAY
    THEN drv8305_spi_read_command_tx(register_manager[StatusIndex(status_state)].type)
    ELSE IF main_state = DRV8305_CONTROL_STATE
               /\ control_state # DRV8305_SM_CONTROL_CYCLE_DELAY
    THEN drv8305_spi_write_command_tx(
             register_manager[ControlIndex(control_state)].type,
             ControlParser(control_state))
    ELSE NoPacket

(***************************************************************************)
(* History variables.                                                      *)
(***************************************************************************)
Min(a, b) == IF a <= b THEN a ELSE b

InDelay(level) ==
    CASE level = "main" -> main_state = DRV8305_DELAY_STATE
      [] level = "status" -> status_state = DRV8305_SM_STATUS_CYCLE_DELAY
      [] level = "control" -> control_state = DRV8305_SM_CONTROL_CYCLE_DELAY

NoWait == [target |-> 0, ticks |-> 0]

\* the second instance after its drv8305_api_initialize with record in the
\* store: its main level has yet to reach CONTROL, nothing is on its wire
SecondInitialized(record) ==
    [config |-> record,
     main_state |-> DRV8305_INIT_STATE,
     control_state |-> DRV8305_SM_CONTROL_HS_GATE_DRIVE_REG,
     tx |-> NoPacket]

FreshHist ==
    [since_status |-> 0, status_ended |-> FALSE,
     second_store |-> default_configuration,
     second_alone |-> SecondInitialized(default_configuration),
     codec |-> [register_type |-> 0, data |-> 0],
     garbled |-> 0, starved |-> FALSE, calls |-> 0, aborted |-> FALSE,
     entered |-> "none"]

FreshPass == [kind |-> "none", regs |-> <<>>, open |-> {}]

FreshSinceInit(via, mid_pass) ==
    [via |-> via, mid_pass |-> mid_pass, polls |-> 0, first_calls |-> <<>>,
     confirmed |-> FALSE, log |-> <<>>]

FreshApplied ==
    [loaded |-> default_configuration, set |-> "no",
     written |-> [index \in 0..(DRV8305_NUMBER_OF_REGISTERS - 1) |-> NoPacket]]

Activated ==
    /\ main_state = DRV8305_DELAY_STATE
    /\ main_state' \in {DRV8305_STATUS_STATE, DRV8305_CONTROL_STATE}

Transacted == io'.tx # NoPacket

Running == IF main_state = DRV8305_STATUS_STATE THEN "status" ELSE "control"

LastStep == Transacted /\ main_state' = DRV8305_DELAY_STATE

\* pass: reset when the main level releases into STATUS or CONTROL, extended
\* by every register step, closed by the sequencer's last register step
PassPolling ==
    pass' =
        IF Activated
        THEN LET kind == IF main_state' = DRV8305_STATUS_STATE
                         THEN "status" ELSE "control"
             IN  [kind |-> kind, regs |-> <<>>, open |-> pass.open \cup {kind}]
        ELSE IF Transacted
        THEN [pass EXCEPT !.regs = Append(@, PacketAddress(io'.tx)),
                          !.open = IF LastStep THEN @ \ {Running} ELSE @]
        ELSE pass

\* since_init: what the instance did since its last initialize
SincePolling ==
    since_init' =
        [since_init EXCEPT
           !.polls = Min(@ + 1, 2),
           !.first_calls = IF since_init.polls = 0 THEN io'.calls ELSE @,
           !.log = IF Transacted /\ Len(@) < MaxLog THEN Append(@, io'.tx) ELSE @]

\* applied: the record copied by the last initialize, the payload last
\* written to each control register since, and how far a set record got:
\* "set", then "confirmed" by a confirm call, then "applied" when the
\* Control Sequencer's last register step after that confirm is done
AppliedPolling ==
    applied' =
        [applied EXCEPT
           !.written = IF Transacted /\ ~PacketIsRead(io'.tx)
                       THEN [@ EXCEPT ![io'.cb_index] = PacketPayload(io'.tx)]
                       ELSE @,
           !.set = IF LastStep /\ Running = "control" /\ @ = "confirmed"
                   THEN "applied" ELSE @]

WaitPolling ==
    wait' = [level \in Levels |->
               IF InDelay(level)' /\ ~InDelay(level)
               THEN [target |-> delay_time', ticks |-> 0]
               ELSE IF ~InDelay(level)' THEN NoWait
               ELSE wait[level]]

WaitTimer(calls) ==
    wait' = [level \in Levels |->
               IF InDelay(level)
               THEN [wait[level] EXCEPT !.ticks = Min(@ + calls, wait[level].target)]
               ELSE wait[level]]

\* hist: the ticks since the Status Sequencer's last register step
HistPolling ==
    hist' = IF LastStep /\ Running = "status"
            THEN [hist EXCEPT !.since_status = 0, !.status_ended = TRUE]
            ELSE hist

HistTimer(calls) ==
    hist' = [hist EXCEPT
               !.since_status = Min(@ + calls, DRV8305_STATUS_POLLING_INTERVAL_MS)]

SinceConfirm == since_init' = [since_init EXCEPT !.confirmed = TRUE]

AppliedConfirm ==
    applied' = [applied EXCEPT !.set = IF @ = "set" THEN "confirmed" ELSE @]

WaitConfirm ==
    wait' = [wait EXCEPT !["main"] = [target |-> delay_time', ticks |-> 0]]

AppliedSet == applied' = [applied EXCEPT !.set = "set"]

SinceInitialize(via) ==
    /\ pass' = FreshPass
    /\ since_init' = FreshSinceInit(via, pass.open # {})

AppliedInitialize == applied' = FreshApplied

(***************************************************************************)
(* Constructed: the statically allocated instance of drv8305_app.c (zero   *)
(* filled, callbacks wired) after drv8305_initialize().  Init: the same,   *)
(* the store holding the datasheet defaults of drv8305_configuration.c.    *)
(***************************************************************************)
Constructed ==
    /\ cycle_time = 0
    /\ delay_time = 0
    /\ main_state = DRV8305_INIT_STATE
    /\ next_main_state = DRV8305_INIT_STATE
    /\ status_state = DRV8305_SM_STATUS_WARNING_REG
    /\ next_status_state = DRV8305_SM_STATUS_WARNING_REG
    /\ control_state = DRV8305_SM_CONTROL_HS_GATE_DRIVE_REG
    /\ next_control_state = DRV8305_SM_CONTROL_HS_GATE_DRIVE_REG
    /\ config = default_configuration
    /\ register_manager =
           [index \in 0..(DRV8305_NUMBER_OF_REGISTERS - 1) |->
               [data |-> 0, type |-> drv8305_registers[index]]]
    /\ configuration_confirmation_flags =
           [hs_gate_drive |-> FALSE, ls_gate_drive |-> FALSE, gate_drive |-> FALSE,
            ic_operation |-> FALSE, shunt_amplifier |-> FALSE,
            voltage_regulator |-> FALSE, vds_sense |-> FALSE]
    /\ hw_callbacks = HardwareCallbacks
    /\ set_call = NoSetCall
    /\ second = SecondInitialized(default_configuration)
    /\ io = IoQuiet("initialize", <<"wake_up_io", "disable_io">>)
    /\ pass = FreshPass
    /\ since_init = FreshSinceInit("boot", FALSE)
    /\ applied = FreshApplied
    /\ wait = [level \in Levels |-> NoWait]
    /\ hist = FreshHist

Init == default_configuration = DatasheetDefaults /\ Constructed

(***************************************************************************)
(* Spec: tick, poll and confirm calls in every interleaving, one tick per  *)
(* step, against the device above.                                         *)
(***************************************************************************)
Timer ==
    /\ drv8305_api_timer
    /\ UNCHANGED <<pass, since_init, applied, wait, hist, context_vars>>

Polling ==
    /\ drv8305_api_master_sm_polling(DeviceResponse(PollTx))
    /\ PassPolling
    /\ UNCHANGED <<since_init, applied, wait, hist, context_vars>>

Confirm ==
    /\ drv8305_api_confirm_configuration
    /\ UNCHANGED <<pass, since_init, applied, wait, hist, context_vars>>

Next == Timer \/ Polling \/ Confirm

Spec == Init /\ [][Next]_vars

(***************************************************************************)
(* SpecPoll: tick and poll calls only, one tick per step.                  *)
(***************************************************************************)
NextPoll == Timer \/ Polling

SpecPoll == Init /\ [][NextPoll]_vars

(***************************************************************************)
(* The specifications below call the timer in runs of                      *)
(* DRV8305_REGISTER_SWITCH_DELAY_MS calls.  Every comparison of the        *)
(* counter is against a multiple of that run length, so every outcome of   *)
(* every guard of the code stays reachable.                                *)
(*                                                                         *)
(* SpecCfg: the configuration store.  set, initialize, confirm and poll    *)
(* calls in every interleaving, with the history of what was applied.      *)
(***************************************************************************)
TimerCfg ==
    /\ drv8305_api_timer_calls(DRV8305_REGISTER_SWITCH_DELAY_MS)
    /\ UNCHANGED <<pass, since_init, applied, wait, hist, context_vars>>

PollingCfg ==
    /\ drv8305_api_master_sm_polling(DeviceResponse(PollTx))
    /\ AppliedPolling
    /\ UNCHANGED <<pass, since_init, wait, hist, context_vars>>

ConfirmCfg ==
    /\ drv8305_api_confirm_configuration
    /\ AppliedConfirm
    /\ UNCHANGED <<pass, since_init, wait, hist, context_vars>>

SetCfg ==
    \E cfg \in ConfigurationRecords :
        /\ drv8305_set_configuration(cfg)
        /\ AppliedSet
        /\ UNCHANGED <<pass, since_init, wait, hist, context_vars>>

InitializeCfg ==
    /\ drv8305_initialize
    /\ AppliedInitialize
    /\ UNCHANGED <<pass, since_init, wait, hist, context_vars>>

NextCfg == TimerCfg \/ PollingCfg \/ ConfirmCfg \/ SetCfg \/ InitializeCfg

SpecCfg == Init /\ [][NextCfg]_vars

(***************************************************************************)
(* SpecInit: re-initialization from every reachable state.  initialize,    *)
(* reset, confirm and poll calls in every interleaving, with the history   *)
(* of the current pass and of what happened since the last initialize.     *)
(***************************************************************************)
TimerInit ==
    /\ drv8305_api_timer_calls(DRV8305_REGISTER_SWITCH_DELAY_MS)
    /\ UNCHANGED <<pass, since_init, applied, wait, hist, context_vars>>

PollingInit ==
    /\ drv8305_api_master_sm_polling(DeviceResponse(PollTx))
    /\ PassPolling
    /\ SincePolling
    /\ UNCHANGED <<applied, wait, hist, context_vars>>

ConfirmInit ==
    /\ drv8305_api_confirm_configuration
    /\ SinceConfirm
    /\ UNCHANGED <<pass, applied, wait, hist, context_vars>>

InitializeInit ==
    /\ drv8305_initialize
    /\ SinceInitialize("initialize")
    /\ UNCHANGED <<applied, wait, hist, context_vars>>

ResetInit ==
    /\ drv8305_reset
    /\ SinceInitialize("reset")
    /\ UNCHANGED <<applied, wait, hist, context_vars>>

NextInit == TimerInit \/ PollingInit \/ ConfirmInit \/ InitializeInit \/ ResetInit

SpecInit == Init /\ [][NextInit]_vars

(***************************************************************************)
(* SpecDelay: the delay sub-states.  timer, poll and confirm calls in      *)
(* every interleaving, with the ticks counted since each delay sub-state   *)
(* was entered.                                                            *)
(***************************************************************************)
TimerDelay ==
    /\ drv8305_api_timer_calls(DRV8305_REGISTER_SWITCH_DELAY_MS)
    /\ WaitTimer(DRV8305_REGISTER_SWITCH_DELAY_MS)
    /\ HistTimer(DRV8305_REGISTER_SWITCH_DELAY_MS)
    /\ UNCHANGED <<pass, since_init, applied, context_vars>>

PollingDelay ==
    /\ drv8305_api_master_sm_polling(DeviceResponse(PollTx))
    /\ WaitPolling
    /\ HistPolling
    /\ UNCHANGED <<pass, since_init, applied, context_vars>>

ConfirmDelay ==
    /\ drv8305_api_confirm_configuration
    /\ WaitConfirm
    /\ UNCHANGED <<pass, since_init, applied, hist, context_vars>>

NextDelay == TimerDelay \/ PollingDelay \/ ConfirmDelay

SpecDelay == Init /\ [][NextDelay]_vars

(***************************************************************************)
(* SpecCmp: the comparators as functions.  The instance is initialized     *)
(* with any of the configuration records in the store, then one handler    *)
(* is called with any 11-bit value.                                        *)
(***************************************************************************)
ControlSteps ==
    {DRV8305_SM_CONTROL_HS_GATE_DRIVE_REG, DRV8305_SM_CONTROL_LS_GATE_DRIVE_REG,
     DRV8305_SM_CONTROL_GATE_DRIVE_REG, DRV8305_SM_CONTROL_IC_OPERATION_REG,
     DRV8305_SM_CONTROL_SHUNT_AMPLIFIER_REG,
     DRV8305_SM_CONTROL_VOLTAGE_REGULATOR_REG, DRV8305_SM_CONTROL_VDS_SENSE_REG}

EchoValues == 0..(Shl(1, 11) - 1)

InitCmp == default_configuration \in ConfigurationRecords /\ Constructed

HandlerCmp ==
    /\ io.op = "initialize"
    /\ \E st \in ControlSteps, data \in EchoValues :
           drv8305_control_register_handler(st, data)
    /\ UNCHANGED <<pass, since_init, applied, wait, hist, context_vars>>

NextCmp == HandlerCmp

SpecCmp == InitCmp /\ [][NextCmp]_vars

(***************************************************************************)
(* SpecNull: an instance whose owner clears or sets one hardware callback  *)
(* pointer between calls (at most MaxMissing are NULL at a time);         *)
(* initialize with the instance or with NULL, and timer and poll calls     *)
(* while every callback is wired.                                          *)
(***************************************************************************)
Rewire ==
    /\ \E cb \in HardwareCallbacks :
          /\ hw_callbacks' = IF cb \in hw_callbacks
                             THEN hw_callbacks \ {cb}
                             ELSE hw_callbacks \cup {cb}
          /\ Cardinality(HardwareCallbacks \ hw_callbacks') <= MaxMissing
    /\ io' = IoQuiet("rewire", <<>>)
    /\ UNCHANGED <<sm_vars, config, register_manager,
                   configuration_confirmation_flags, default_configuration,
                   history_vars, context_vars>>

InitializeNull == drv8305_initialize /\ UNCHANGED <<history_vars, context_vars>>

InitializeNullSelf == drv8305_api_initialize_null_self /\ UNCHANGED <<history_vars, context_vars>>

PollingNull ==
    /\ hw_callbacks = HardwareCallbacks
    /\ drv8305_api_master_sm_polling(DeviceResponse(PollTx))
    /\ UNCHANGED <<history_vars, context_vars>>

NextNull ==
    TimerCfg \/ PollingNull \/ InitializeNull \/ InitializeNullSelf \/ Rewire

SpecNull == Init /\ [][NextNull]_vars

(***************************************************************************)
(* SpecStore: one context initializes the instance while another replaces  *)
(* the configuration, with its own buffer or through the pointer           *)
(* drv8305_get_configuration returned.                                     *)
(***************************************************************************)
SetMemsetStore ==
    /\ \E cfg \in {StorePointer} \cup {BufferPointer(record) : record \in ConfigurationRecords} :
           drv8305_set_configuration_memset(cfg)
    /\ UNCHANGED history_vars

SetMemcpyStore == drv8305_set_configuration_memcpy /\ UNCHANGED history_vars

GetWriteStore ==
    /\ \E record \in ConfigurationRecords : drv8305_get_configuration_write(record)
    /\ UNCHANGED history_vars

NextStore ==
    InitializeNull \/ SetMemsetStore \/ SetMemcpyStore \/ GetWriteStore

SpecStore == Init /\ [][NextStore]_vars

(***************************************************************************)
(* SpecFrame: every operation but initialize, in every interleaving, in    *)
(* runs of DRV8305_REGISTER_SWITCH_DELAY_MS ticks.                         *)
(***************************************************************************)
IcEnableFrame ==
    drv8305_api_ic_enable /\ UNCHANGED <<history_vars, context_vars>>

IcDisableFrame ==
    drv8305_api_ic_disable /\ UNCHANGED <<history_vars, context_vars>>

NextFrame ==
    \/ TimerCfg \/ PollingNull \/ Confirm \/ SetCfg
    \/ IcEnableFrame \/ IcDisableFrame

SpecFrame == Init /\ [][NextFrame]_vars

(***************************************************************************)
(* SpecCodec: the packet functions alone.  A write packet is created for   *)
(* any 4-bit address and any 11-bit data, the wire returns it, and the     *)
(* response is parsed; one round trip per behaviour.                       *)
(***************************************************************************)
AddressValues == 0..(Shl(1, 4) - 1)

RoundTripCodec ==
    /\ io.op = "initialize"
    /\ \E register_type \in AddressValues, data \in EchoValues :
          LET packet == drv8305_spi_write_packet_create(register_type, data)
          IN  /\ io' = IoRecord("codec", <<>>, packet, packet, register_type,
                                drv8305_spi_response_packet_create(packet))
              /\ hist' = [hist EXCEPT
                            !.codec = [register_type |-> register_type, data |-> data]]
    /\ UNCHANGED <<self_vars, default_configuration, context_vars,
                   pass, since_init, applied, wait>>

\* each packet function applied once: the write packet for addresses and
\* data wider than their fields (up to MaxAddressInput and MaxDataInput,
\* and the all-ones word), the read packet, and the response of every
\* 16-bit word
PacketsCodec ==
    /\ io.op = "initialize"
    /\ \/ \E register_type \in 0..MaxAddressInput,
             data \in (0..MaxDataInput) \cup {U16(-1)} :
             /\ io' = IoRecord("codec:write", <<>>,
                               drv8305_spi_write_packet_create(register_type, data),
                               NoPacket, NoPacket, NoPacket)
             /\ hist' = [hist EXCEPT
                           !.codec = [register_type |-> register_type, data |-> data]]
       \/ \E register_type \in 0..MaxAddressInput :
             /\ io' = IoRecord("codec:read", <<>>,
                               drv8305_spi_read_packet_create(register_type),
                               NoPacket, NoPacket, NoPacket)
             /\ hist' = [hist EXCEPT
                           !.codec = [register_type |-> register_type, data |-> 0]]
       \/ \E raw \in 0..U16(-1) :
             /\ io' = IoRecord("codec:response", <<>>, NoPacket, raw, NoPacket,
                               drv8305_spi_response_packet_create(raw))
             /\ hist' = [hist EXCEPT !.codec = [register_type |-> 0, data |-> raw]]
    /\ UNCHANGED <<self_vars, default_configuration, context_vars,
                   pass, since_init, applied, wait>>

NextCodec == RoundTripCodec \/ PacketsCodec

SpecCodec == Init /\ [][NextCodec]_vars

(***************************************************************************)
(* SpecWire: tick and poll calls on an instance initialized with any of    *)
(* the configuration records, the receive callback returning the device's  *)
(* response or, at most MaxGarbled times, the all-ones word of an idle     *)
(* bus.                                                                    *)
(***************************************************************************)
WireResponses ==
    {DeviceResponse(PollTx)} \cup
    (IF PollTx # NoPacket /\ hist.garbled < MaxGarbled THEN {U16(-1)} ELSE {})

PollingWire ==
    /\ \E rx \in WireResponses :
          /\ drv8305_api_master_sm_polling(rx)
          /\ hist' = [hist EXCEPT
                        !.garbled = IF rx = DeviceResponse(PollTx) THEN @ ELSE @ + 1]
    /\ UNCHANGED <<pass, since_init, applied, wait, context_vars>>

NextWire == TimerCfg \/ PollingWire

SpecWire == InitCmp /\ [][NextWire]_vars

(***************************************************************************)
(* SpecEcho: tick and poll calls on an instance initialized with any of    *)
(* the configuration records, behind a transport that answers every write  *)
(* command with exactly the frame written.                                 *)
(***************************************************************************)
EchoResponse(tx) ==
    IF tx # NoPacket /\ ~PacketIsRead(tx) THEN tx ELSE DeviceResponse(tx)

PollingEcho ==
    /\ drv8305_api_master_sm_polling(EchoResponse(PollTx))
    /\ UNCHANGED <<history_vars, context_vars>>

NextEcho == TimerCfg \/ PollingEcho

SpecEcho == InitCmp /\ [][NextEcho]_vars

(***************************************************************************)
(* Properties of the sequencers.                                           *)
(***************************************************************************)
IsPrefix(s, t) == Len(s) <= Len(t) /\ SubSeq(t, 1, Len(s)) = s

StatusOrder == <<DRV8305_STATUS_01_REG_ADDR, DRV8305_STATUS_02_REG_ADDR, DRV8305_STATUS_03_REG_ADDR, DRV8305_STATUS_04_REG_ADDR>>

ControlOrder ==
    <<DRV8305_CONTROL_05_REG_ADDR, DRV8305_CONTROL_06_REG_ADDR, DRV8305_CONTROL_07_REG_ADDR, DRV8305_CONTROL_09_REG_ADDR,
      DRV8305_CONTROL_0A_REG_ADDR, DRV8305_CONTROL_0B_REG_ADDR, DRV8305_CONTROL_0C_REG_ADDR>>

ReturningToIdle ==
    \/ main_state = DRV8305_IDLE_STATE
    \/ main_state = DRV8305_DELAY_STATE /\ next_main_state = DRV8305_IDLE_STATE

\* C1: in every activation of the Status Sequencer the registers read are
\* 0x01, 0x02, 0x03, 0x04, each once and in that order, and the main state
\* returns to IDLE only after all four.
C1_StatusPassReadsAllFour ==
    pass.kind = "status" =>
        /\ IsPrefix(pass.regs, StatusOrder)
        /\ ReturningToIdle => pass.regs = StatusOrder

\* C2: in every activation of the Control Sequencer, from boot or from a
\* confirm call, the registers written are 0x05, 0x06, 0x07, 0x09, 0x0A,
\* 0x0B, 0x0C, each once and in that order, and the main state returns to
\* IDLE only after all seven.
C2_ControlPassWritesAllSeven ==
    pass.kind = "control" =>
        /\ IsPrefix(pass.regs, ControlOrder)
        /\ ReturningToIdle => pass.regs = ControlOrder

\* C8: once the main state has entered STATUS or CONTROL it does not reach
\* IDLE before that sequencer has performed its last register step: in
\* IDLE no entered pass is left open.
C8_IdleOnlyAfterLastStep ==
    main_state = DRV8305_IDLE_STATE => pass.open = {}

\* C9: a confirm call leaves the main state in DELAY with pending state
\* CONTROL, counter 0 and target DRV8305_REGISTER_SWITCH_DELAY_MS, and a
\* poll that leaves DELAY enters the pending state.
C9_ConfirmSchedulesControl ==
    /\ [](io.op = "confirm_configuration" =>
            /\ main_state = DRV8305_DELAY_STATE
            /\ next_main_state = DRV8305_CONTROL_STATE
            /\ cycle_time = 0
            /\ delay_time = DRV8305_REGISTER_SWITCH_DELAY_MS)
    /\ [][main_state = DRV8305_DELAY_STATE /\ main_state' # DRV8305_DELAY_STATE
             => main_state' = next_main_state]_vars

\* a confirm call made in the middle of a status pass
C9_Witness ==
    /\ io.op = "confirm_configuration"
    /\ "status" \in pass.open
    /\ next_main_state = DRV8305_CONTROL_STATE

(***************************************************************************)
(* Properties of the configuration store.                                  *)
(***************************************************************************)
\* the payload the pack macro of control step st gives for record
ControlPack(st, record) ==
    CASE st = DRV8305_SM_CONTROL_HS_GATE_DRIVE_REG -> DRV8305_PACK_CTRL05(record.hs_gate_drive)
      [] st = DRV8305_SM_CONTROL_LS_GATE_DRIVE_REG -> DRV8305_PACK_CTRL06(record.ls_gate_drive)
      [] st = DRV8305_SM_CONTROL_GATE_DRIVE_REG -> DRV8305_PACK_CTRL07(record.gate_drive)
      [] st = DRV8305_SM_CONTROL_IC_OPERATION_REG -> DRV8305_PACK_CTRL09(record.ic_operation)
      [] st = DRV8305_SM_CONTROL_SHUNT_AMPLIFIER_REG -> DRV8305_PACK_CTRL0A(record.shunt_amplifier)
      [] st = DRV8305_SM_CONTROL_VOLTAGE_REGULATOR_REG -> DRV8305_PACK_CTRL0B(record.voltage_regulator)
      [] st = DRV8305_SM_CONTROL_VDS_SENSE_REG -> DRV8305_PACK_CTRL0C(record.vds_sense)

WroteControl == io.op = "polling" /\ io.tx # NoPacket /\ ~PacketIsRead(io.tx)

\* C3: after set(record), a confirm call and the Control cycle it triggers,
\* the payload written for each of the 7 control registers is the pack of
\* the record in the store, and each ConfirmationFlag is the comparison of
\* the echo against that record.
C3_ConfirmAppliesStoredRecord ==
    applied.set = "applied" =>
        \A st \in ControlSteps :
            /\ applied.written[ControlIndex(st)] = ControlPack(st, default_configuration)
            /\ configuration_confirmation_flags[ControlField(st)] =
                   ControlCallback(ControlField(st),
                                   default_configuration[ControlField(st)],
                                   register_manager[ControlIndex(st)].data)

\* C4: a set call invokes no callback and changes nothing in the instance,
\* and every control packet a poll puts on the wire carries the pack of the
\* record the instance loaded at its last initialize, whatever the store
\* holds since.
C4_SetProgramsNothing ==
    /\ [](io.op = "set_configuration" => io.tx = NoPacket /\ io.calls = <<>>)
    /\ [][io'.op = "set_configuration" => UNCHANGED self_vars]_vars
    /\ [](WroteControl =>
            \A st \in ControlSteps :
                ControlIndex(st) = io.cb_index =>
                    PacketPayload(io.tx) = ControlPack(st, applied.loaded))

\* a control write made while the store holds a set record that differs
\* from the record in use, no confirm call made since the set
C4_Witness ==
    /\ WroteControl
    /\ applied.set = "set"
    /\ default_configuration # applied.loaded
    /\ io.cb_index = DRV8305_CONTROL_05_ARRAY_INDEX
    /\ PacketPayload(io.tx) # ControlPack(DRV8305_SM_CONTROL_HS_GATE_DRIVE_REG,
                                          default_configuration)

(***************************************************************************)
(* Properties of the comparators.                                          *)
(***************************************************************************)
\* the field at bits hi..lo of an 11-bit value
LayoutField(data, hi, lo) == Shr(data, lo) % Shl(1, hi - lo + 1)

\* whether every field of data, decoded with the documented bit layout of
\* control step st (clr_flts left out), equals the field of record
LayoutMatches(st, record, data) ==
    CASE st \in {DRV8305_SM_CONTROL_HS_GATE_DRIVE_REG, DRV8305_SM_CONTROL_LS_GATE_DRIVE_REG} ->
            /\ LayoutField(data, 9, 8) = record.tdrive
            /\ LayoutField(data, 7, 4) = record.isink
            /\ LayoutField(data, 3, 0) = record.isource
      [] st = DRV8305_SM_CONTROL_GATE_DRIVE_REG ->
            /\ LayoutField(data, 10, 10) = record.vcph_freq
            /\ LayoutField(data, 9, 9) = record.comm_option
            /\ LayoutField(data, 8, 7) = record.pwm_mode
            /\ LayoutField(data, 6, 4) = record.dead_time
            /\ LayoutField(data, 3, 2) = record.tblank
            /\ LayoutField(data, 1, 0) = record.tvds
      [] st = DRV8305_SM_CONTROL_IC_OPERATION_REG ->
            /\ LayoutField(data, 10, 10) = record.flip_otsd
            /\ LayoutField(data, 9, 9) = record.dis_pvdd_uvlo2
            /\ LayoutField(data, 8, 8) = record.dis_gdrv_fault
            /\ LayoutField(data, 7, 7) = record.en_sns_clamp
            /\ LayoutField(data, 6, 5) = record.wd_dly
            /\ LayoutField(data, 4, 4) = record.dis_sns_ocp
            /\ LayoutField(data, 3, 3) = record.wd_en
            /\ LayoutField(data, 2, 2) = record.sleep
            /\ LayoutField(data, 0, 0) = record.set_vcph_uv
      [] st = DRV8305_SM_CONTROL_SHUNT_AMPLIFIER_REG ->
            /\ LayoutField(data, 10, 10) = record.dc_cal_ch3
            /\ LayoutField(data, 9, 9) = record.dc_cal_ch2
            /\ LayoutField(data, 8, 8) = record.dc_cal_ch1
            /\ LayoutField(data, 7, 6) = record.cs_blank
            /\ LayoutField(data, 5, 4) = record.gain_cs3
            /\ LayoutField(data, 3, 2) = record.gain_cs2
            /\ LayoutField(data, 1, 0) = record.gain_cs1
      [] st = DRV8305_SM_CONTROL_VOLTAGE_REGULATOR_REG ->
            /\ LayoutField(data, 9, 8) = record.vref_scale
            /\ LayoutField(data, 4, 3) = record.sleep_dly
            /\ LayoutField(data, 2, 2) = record.dis_vreg_pwrgd
            /\ LayoutField(data, 1, 0) = record.vreg_uv_level
      [] st = DRV8305_SM_CONTROL_VDS_SENSE_REG ->
            /\ LayoutField(data, 7, 3) = record.vds_level
            /\ LayoutField(data, 2, 0) = record.vds_mode

HandlerCalled(st) == io.op = "handler" /\ io.cb_index = ControlIndex(st)

\* C5: for each control register, every 11-bit echo and every configured
\* sub-record, the handler sets the ConfirmationFlag to true if and only if
\* every field of the echo, decoded with the documented layout (clr_flts
\* left out), equals the configured field.
C5_FlagIffLayoutFieldsEqual ==
    \A st \in ControlSteps :
        HandlerCalled(st) =>
            configuration_confirmation_flags[ControlField(st)] =
                LayoutMatches(st, config[ControlField(st)], io.cb_data)

\* C6: the 0x09 flag is the one the handler gives for the echo with bit 1
\* flipped, and the one it gives for the configuration with clr_flts
\* flipped.
C6_FlagIgnoresClrFlts ==
    HandlerCalled(DRV8305_SM_CONTROL_IC_OPERATION_REG) =>
        LET flag    == configuration_confirmation_flags.ic_operation
            flipped == IF BitAnd(io.cb_data, DRV8305_CTRL09_CLR_FLTS_MASK) = 0
                       THEN io.cb_data + DRV8305_CTRL09_CLR_FLTS_MASK
                       ELSE io.cb_data - DRV8305_CTRL09_CLR_FLTS_MASK
            other   == [config.ic_operation EXCEPT !.clr_flts = 1 - @]
        IN  /\ flag = drv8305_ic_operation_register_handler(config.ic_operation, flipped)
            /\ flag = drv8305_ic_operation_register_handler(other, io.cb_data)

\* the handler confirms an echo whose clr_flts bit is clear against a
\* configuration whose clr_flts is set
C6_Witness ==
    /\ HandlerCalled(DRV8305_SM_CONTROL_IC_OPERATION_REG)
    /\ configuration_confirmation_flags.ic_operation
    /\ config.ic_operation.clr_flts = 1
    /\ BitAnd(io.cb_data, DRV8305_CTRL09_CLR_FLTS_MASK) = 0

(***************************************************************************)
(* Properties of the delay sub-states and of initialization.               *)
(***************************************************************************)
\* the level a poll call runs: the main level in DELAY, else the sequencer
\* the main state delegates to
Polled(level) ==
    CASE level = "main" -> main_state = DRV8305_DELAY_STATE
      [] level = "status" -> main_state = DRV8305_STATUS_STATE
      [] level = "control" -> main_state = DRV8305_CONTROL_STATE

\* C7: a delay sub-state entered with target T is left by a poll only when
\* at least T ticks have occurred since it was entered, and a poll of its
\* level that finds the counter at T or more leaves it.
C7_DelayReleasesAtTarget ==
    [][\A level \in Levels :
          io'.op = "polling" /\ InDelay(level) =>
              /\ ~InDelay(level)' => wait[level].ticks >= wait[level].target
              /\ Polled(level) /\ cycle_time >= wait[level].target => ~InDelay(level)']_vars

\* C10: after an initialize with no confirm call since, the first poll
\* invokes the enable and the wake callback once each, and the first 7
\* transactions are writes to 0x05, 0x06, 0x07, 0x09, 0x0A, 0x0B, 0x0C in
\* that order.
C10_BootProgramsControlFirst ==
    ~since_init.confirmed =>
        /\ since_init.polls >= 1 => since_init.first_calls = <<"enable_io", "wake_up_io">>
        /\ \A i \in 1..Min(Len(since_init.log), Len(ControlOrder)) :
               /\ ~PacketIsRead(since_init.log[i])
               /\ PacketAddress(since_init.log[i]) = ControlOrder[i]

\* a reset made in the middle of a pass, seven transactions later
C10_Witness ==
    /\ since_init.via = "reset"
    /\ since_init.mid_pass
    /\ ~since_init.confirmed
    /\ Len(since_init.log) >= Len(ControlOrder)

(***************************************************************************)
(* The polling interval                                                    *)
(***************************************************************************)

\* C11: a poll call moves the main level out of IDLE towards STATUS only
\* when at least DRV8305_STATUS_POLLING_INTERVAL_MS ticks were counted since
\* the previous Status pass ended (since boot before the first one)
C11_StatusPassAfterInterval ==
    [][(/\ io'.op = "polling"
        /\ main_state = DRV8305_IDLE_STATE
        /\ main_state' # DRV8305_IDLE_STATE)
       => (/\ main_state' = DRV8305_DELAY_STATE
           /\ next_main_state' = DRV8305_STATUS_STATE
           /\ cycle_time >= DRV8305_STATUS_POLLING_INTERVAL_MS
           /\ hist.since_status >= DRV8305_STATUS_POLLING_INTERVAL_MS)]_vars

\* a second Status pass has just been scheduled from IDLE
C11_Witness ==
    /\ io.op = "polling"
    /\ main_state = DRV8305_DELAY_STATE
    /\ next_main_state = DRV8305_STATUS_STATE
    /\ cycle_time = 0
    /\ hist.status_ended
    /\ hist.since_status >= DRV8305_STATUS_POLLING_INTERVAL_MS

(***************************************************************************)
(* Initialization with a missing callback                                  *)
(***************************************************************************)

\* C12: initialize called with a null instance, or with the disable,
\* enable, sleep, wake, transmit or receive callback missing, leaves every
\* field of the instance unchanged and invokes no callback
C12_InitializeAbortsOnNull ==
    [][(\/ io'.op = "initialize(NULL)"
        \/ /\ io'.op = "initialize"
           /\ \E cb \in {"disable_io", "enable_io", "sleep_io", "wake_up_io",
                          "spi_transmit_cb", "spi_receive_cb"} :
                  cb \notin hw_callbacks)
       => (UNCHANGED self_vars /\ io'.calls = <<>>)]_vars

\* an instance that ran to IDLE, lost its transmit callback and was
\* initialized again: it is still in IDLE
C12_Witness ==
    /\ io.op = "initialize"
    /\ hw_callbacks = HardwareCallbacks \ {"spi_transmit_cb"}
    /\ main_state = DRV8305_IDLE_STATE
    /\ io.calls = <<>>

(***************************************************************************)
(* One poll call                                                           *)
(***************************************************************************)
LevelState(level) ==
    CASE level = "main" -> main_state
      [] level = "status" -> status_state
      [] level = "control" -> control_state

LevelPending(level) ==
    CASE level = "main" -> next_main_state
      [] level = "status" -> next_status_state
      [] level = "control" -> next_control_state

DelayState(level) ==
    CASE level = "main" -> DRV8305_DELAY_STATE
      [] level = "status" -> DRV8305_SM_STATUS_CYCLE_DELAY
      [] level = "control" -> DRV8305_SM_CONTROL_CYCLE_DELAY

\* the level whose delay state a poll call tests, if any
PolledDelay(level) ==
    CASE level = "main" -> main_state = DRV8305_DELAY_STATE
      [] level = "status" -> /\ main_state = DRV8305_STATUS_STATE
                             /\ status_state = DRV8305_SM_STATUS_CYCLE_DELAY
      [] level = "control" -> /\ main_state = DRV8305_CONTROL_STATE
                              /\ control_state = DRV8305_SM_CONTROL_CYCLE_DELAY

\* C13: one poll call changes the current state of at most one level, and
\* by one step (into the level's delay state, or out of it into the pending
\* state); it runs at most one transaction, one transmit then one receive;
\* in a delay state whose target is not reached it changes nothing
C13_PollTakesOneStep ==
    [][io'.op = "polling" =>
        /\ Cardinality({level \in Levels : LevelState(level)' # LevelState(level)}) <= 1
        /\ \A level \in Levels :
              LevelState(level)' # LevelState(level) =>
                 \/ LevelState(level)' = DelayState(level)
                 \/ /\ LevelState(level) = DelayState(level)
                    /\ LevelState(level)' = LevelPending(level)
        /\ \/ io'.calls = <<"spi_transmit_cb", "spi_receive_cb">> /\ io'.tx # NoPacket
           \/ /\ io'.tx = NoPacket
              /\ \A k \in 1..Len(io'.calls) :
                     io'.calls[k] \notin {"spi_transmit_cb", "spi_receive_cb"}
        /\ \A level \in Levels :
              PolledDelay(level) /\ cycle_time < delay_time =>
                 UNCHANGED <<self_vars, default_configuration>> /\ io'.calls = <<>>
      ]_vars

\* a poll has just run the transaction of 0x01 and parked the Status
\* Sequencer in its delay state
C13_Witness ==
    /\ io.op = "polling"
    /\ io.calls = <<"spi_transmit_cb", "spi_receive_cb">>
    /\ PacketAddress(io.tx) = DRV8305_STATUS_01_REG_ADDR
    /\ main_state = DRV8305_STATUS_STATE
    /\ status_state = DRV8305_SM_STATUS_CYCLE_DELAY

(***************************************************************************)
(* The shared counter                                                      *)
(***************************************************************************)

\* C14: after every poll or confirm step that changes the current state of
\* the main, status or control level, the release of a delay state into
\* its pending state included, the shared cycle counter is 0
C14_CounterResetOnEveryTransition ==
    [][(/\ io'.op \in {"polling", "confirm_configuration"}
        /\ \E level \in Levels : LevelState(level)' # LevelState(level))
       => cycle_time' = 0]_vars

\* C15: at most one of the three levels is waiting on the shared counter
\* and target: the main level is never in DELAY while the status or the
\* control level is in CYCLE_DELAY, and the status and control levels are
\* never both in their delay state
C15_OneLevelWaits ==
    Cardinality({level \in Levels : LevelState(level) = DelayState(level)}) <= 1

(***************************************************************************)
(* Replacing the configuration                                             *)
(***************************************************************************)

\* C16: replacing the configuration is all-or-nothing: an initialize that
\* copies the store while a set call is in progress copies the whole old
\* record or the whole new one, never a zeroed or partly copied one
C16_SetIsAllOrNothing ==
    [][(/\ io'.op = "initialize"
        /\ set_call.pc = "memcpy"
        /\ MandatoryCallbacks \subseteq hw_callbacks)
       => config' \in {set_call.old, set_call.new}]_vars

\* C17: set called with the pointer get returned, after the caller modified
\* fields through it, leaves the store holding the modified record
C17_SetOfGetKeepsRecord ==
    [][(/\ io'.op = "set_configuration"
        /\ set_call.pc = "memcpy"
        /\ set_call.cfg = StorePointer)
       => default_configuration' = set_call.old]_vars

(***************************************************************************)
(* Two instances.  The second instance runs the same code on its own       *)
(* object; it is reduced to the fields its control writes depend on, and   *)
(* second_polling is the run of its poll and timer calls up to and         *)
(* including its next register write.  owner says for which instance a     *)
(* drv8305_set_configuration call is meant; the call takes no instance.    *)
(***************************************************************************)
second_polling(instance) ==
    LET st == instance.control_state
        tx == drv8305_spi_write_command_tx(
                  drv8305_registers[ControlIndex(st)], ControlPack(st, instance.config))
    IN  IF st = DRV8305_SM_CONTROL_VDS_SENSE_REG
        THEN [instance EXCEPT !.tx = tx, !.main_state = DRV8305_IDLE_STATE]
        ELSE [instance EXCEPT !.tx = tx, !.main_state = DRV8305_CONTROL_STATE,
                              !.control_state = ControlSuccessor(st)]

InitializeTwo ==
    /\ second' = SecondInitialized(default_configuration)
    /\ hist' = [hist EXCEPT !.second_alone = SecondInitialized(hist.second_store)]
    /\ io' = IoQuiet("second:initialize", <<>>)
    /\ UNCHANGED <<self_vars, default_configuration, set_call,
                   pass, since_init, applied, wait>>

PollingTwo ==
    /\ second.main_state # DRV8305_IDLE_STATE
    /\ second' = second_polling(second)
    /\ hist' = [hist EXCEPT !.second_alone = second_polling(@)]
    /\ io' = IoQuiet("second:polling", <<>>)
    /\ UNCHANGED <<self_vars, default_configuration, set_call,
                   pass, since_init, applied, wait>>

SetTwo ==
    /\ \E owner \in {"first", "second"}, cfg \in ConfigurationRecords :
          /\ drv8305_set_configuration(cfg)
          /\ hist' = [hist EXCEPT !.second_store = IF owner = "second" THEN cfg ELSE @]
    /\ UNCHANGED <<context_vars, pass, since_init, applied, wait>>

NextTwo == InitializeNull \/ PollingNull \/ SetTwo \/ InitializeTwo \/ PollingTwo

SpecTwo == Init /\ [][NextTwo]_vars

\* C18: the state of the second instance and the packets it puts on the
\* wire are what they would be had nothing been done to the first instance
\* and no configuration been set for it
C18_InstancesAreIndependent == second = hist.second_alone

(***************************************************************************)
(* What writes the register slots and the confirmation flags               *)
(***************************************************************************)

\* C19: the 11 register slots and the 7 confirmation flags are left
\* unchanged by tick, confirm, set, ic_enable and ic_disable, and by a poll
\* in INIT, IDLE, WAKE_UP, SLEEP or any delay state
C19_SlotsAndFlagsFrame ==
    [][(\/ io'.op \in {"timer", "confirm_configuration", "set_configuration",
                       "ic_enable", "ic_disable"}
        \/ /\ io'.op = "polling"
           /\ (\/ main_state \in {DRV8305_INIT_STATE, DRV8305_IDLE_STATE,
                                   DRV8305_WAKE_UP_STATE, DRV8305_SLEEP_STATE}
               \/ \E level \in Levels : PolledDelay(level)))
       => UNCHANGED <<register_manager, configuration_confirmation_flags>>]_vars

\* a confirm call made while a slot holds an echo and a flag is set
C19_Witness ==
    /\ io.op = "confirm_configuration"
    /\ \E index \in DOMAIN register_manager : register_manager[index].data # 0
    /\ \E field \in DOMAIN configuration_confirmation_flags :
           configuration_confirmation_flags[field]

(***************************************************************************)
(* The packet round trip                                                   *)
(***************************************************************************)

\* C20: for every 4-bit address and every 11-bit data, parsing the
\* response made of the write packet gives the data back
C20_WriteResponseRoundTrip ==
    io.op = "codec" => io.cb_data = hist.codec.data

\* the round trip of the largest address and the largest data
C20_Witness ==
    /\ io.op = "codec"
    /\ hist.codec = [register_type |-> 15, data |-> 2047]
    /\ io.tx = 65535 - Shl(1, 15)
    /\ io.cb_data = 2047

\* C21: the write packet is (addr mod 16) * 2^11 + (data mod 2^11), with
\* bit 15 clear; the read packet is 2^15 + (addr mod 16) * 2^11, with bits
\* 10:0 clear; the parsed response is raw mod 2^11; the write packet of
\* (0x05, 0x344) is 0x2B44, the read packet of 0x01 is 0x8800 and the
\* parsed response of 0xFFFF is 0x7FF
C21_PacketLayout ==
    /\ io.op = "codec:write" =>
          /\ io.tx = ((hist.codec.register_type % 16) * 2048) + (hist.codec.data % 2048)
          /\ io.tx < 32768
          /\ hist.codec = [register_type |-> 5, data |-> 836] => io.tx = 11076
    /\ io.op = "codec:read" =>
          /\ io.tx = 32768 + ((hist.codec.register_type % 16) * 2048)
          /\ io.tx % 2048 = 0
          /\ hist.codec.register_type = 1 => io.tx = 34816
    /\ io.op = "codec:response" =>
          /\ io.cb_data = hist.codec.data % 2048
          /\ hist.codec.data = 65535 => io.cb_data = 2047

\* the write packet of an address and a data that both overflow their field
C21_Witness ==
    /\ io.op = "codec:write"
    /\ hist.codec = [register_type |-> 21, data |-> 2048 + 836]
    /\ io.tx = 11076

(***************************************************************************)
(* The default record                                                      *)
(***************************************************************************)

\* the "Default Value" comments of default_configuration
DocumentedDefault(address) ==
    CASE address = DRV8305_CONTROL_05_REG_ADDR -> 836
      [] address = DRV8305_CONTROL_06_REG_ADDR -> 836
      [] address = DRV8305_CONTROL_07_REG_ADDR -> 662
      [] address = DRV8305_CONTROL_0A_REG_ADDR -> 0
      [] address = DRV8305_CONTROL_0B_REG_ADDR -> 258
      [] address = DRV8305_CONTROL_0C_REG_ADDR -> 202

\* C22: with the default record in the store and in the instance, the
\* payload written to 0x05, 0x06, 0x07, 0x0A, 0x0B and 0x0C is the default
\* value documented next to the record: 0x344, 0x344, 0x296, 0x000, 0x102
\* and 0x0CA
C22_DefaultRecordPacksToDocumentedValues ==
    (/\ WroteControl
     /\ config = DatasheetDefaults
     /\ PacketAddress(io.tx) # DRV8305_CONTROL_09_REG_ADDR)
    => PacketPayload(io.tx) = DocumentedDefault(PacketAddress(io.tx))

(***************************************************************************)
(* One register step                                                       *)
(***************************************************************************)
ControlStep ==
    /\ io'.op = "polling"
    /\ main_state = DRV8305_CONTROL_STATE
    /\ control_state # DRV8305_SM_CONTROL_CYCLE_DELAY

StatusStep ==
    /\ io'.op = "polling"
    /\ main_state = DRV8305_STATUS_STATE
    /\ status_state # DRV8305_SM_STATUS_CYCLE_DELAY

\* C23: a control register step transmits the write packet of its address
\* and of the pack of the sub-record the instance holds for it, stores the
\* response mod 2^11 into its slot, passes that value to its callback, and
\* changes no other slot and no other flag
C23_ControlStepEffect ==
    [][ControlStep =>
        LET k == ControlIndex(control_state)
        IN  /\ io'.tx = (drv8305_registers[k] * 2048)
                           + ControlPack(control_state, config)
            /\ register_manager'[k].data = io'.rx % 2048
            /\ io'.cb_index = k
            /\ io'.cb_data = io'.rx % 2048
            /\ \A j \in DOMAIN register_manager :
                  j # k => register_manager'[j] = register_manager[j]
            /\ \A field \in DOMAIN configuration_confirmation_flags :
                  field # ControlField(control_state) =>
                     configuration_confirmation_flags'[field]
                        = configuration_confirmation_flags[field]
      ]_vars

\* the step of 0x0A answered by an idle bus: the slot and the callback got
\* 0x7FF
C23_Witness ==
    /\ io.op = "polling"
    /\ PacketAddress(io.tx) = DRV8305_CONTROL_0A_REG_ADDR
    /\ io.rx = 65535
    /\ register_manager[DRV8305_CONTROL_0A_ARRAY_INDEX].data = 2047
    /\ io.cb_data = 2047

\* C24: a status register step transmits the read packet of its register
\* (0x8800, 0x9000, 0x9800, 0xA000), stores the response mod 2^11 into the
\* matching slot, passes that value to the matching callback, and leaves
\* the other 10 slots unchanged
C24_StatusStepEffect ==
    [][StatusStep =>
        LET k == StatusIndex(status_state)
        IN  /\ io'.tx = 32768 + ((k + 1) * 2048)
            /\ io'.tx \in {34816, 36864, 38912, 40960}
            /\ register_manager'[k].data = io'.rx % 2048
            /\ io'.cb_index = k
            /\ io'.cb_data = io'.rx % 2048
            /\ \A j \in DOMAIN register_manager :
                  j # k => register_manager'[j] = register_manager[j]
      ]_vars

\* the step of 0x03 answered by an idle bus
C24_Witness ==
    /\ io.op = "polling"
    /\ io.tx = 38912
    /\ io.rx = 65535
    /\ register_manager[DRV8305_STATUS_03_ARRAY_INDEX].data = 2047
    /\ io.cb_data = 2047

(***************************************************************************)
(* Confirmation behind an echoing transport                                *)
(***************************************************************************)

\* C25: when every write command is answered with exactly the payload
\* written, all 7 confirmation flags are true once the Control pass has
\* written its last register, whatever record (its fields within their
\* widths) the instance holds
C25_EchoConfirmsEveryRegister ==
    (/\ WroteControl
     /\ PacketAddress(io.tx) = DRV8305_CONTROL_0C_REG_ADDR)
    => \A field \in DOMAIN configuration_confirmation_flags :
          configuration_confirmation_flags[field]

(***************************************************************************)
(* What initialize sets up                                                 *)
(***************************************************************************)

\* C26: a successful initialize, from any prior state, sets the counter and
\* the target to 0, the main state to INIT, the status level to WARNING and
\* the control level to HS_GATE_DRIVE, copies the whole store into the
\* instance, sets every slot value to 0 with the slot addresses 0x01, 0x02,
\* 0x03, 0x04, 0x05, 0x06, 0x07, 0x09, 0x0A, 0x0B, 0x0C in that order, and
\* calls the wake callback, then the disable callback, and no other
C26_InitializeEffect ==
    [][(/\ io'.op = "initialize"
        /\ \A cb \in {"disable_io", "enable_io", "sleep_io", "wake_up_io",
                       "spi_transmit_cb", "spi_receive_cb"} : cb \in hw_callbacks)
       => /\ cycle_time' = 0
          /\ delay_time' = 0
          /\ main_state' = DRV8305_INIT_STATE
          /\ status_state' = DRV8305_SM_STATUS_WARNING_REG
          /\ control_state' = DRV8305_SM_CONTROL_HS_GATE_DRIVE_REG
          /\ config' = default_configuration
          /\ DOMAIN register_manager' = 0..10
          /\ \A index \in 0..10 :
                /\ register_manager'[index].data = 0
                /\ register_manager'[index].type
                      = <<1, 2, 3, 4, 5, 6, 7, 9, 10, 11, 12>>[index + 1]
          /\ io'.calls = <<"wake_up_io", "disable_io">>
          /\ io'.tx = NoPacket /\ io'.rx = NoPacket
      ]_vars

\* an initialize made after a run that had reached IDLE and after a set
\* call: the instance holds the new record, the slots are empty
C26_Witness ==
    /\ io.op = "initialize"
    /\ next_main_state = DRV8305_IDLE_STATE
    /\ config = AlternateRecord
    /\ main_state = DRV8305_INIT_STATE
    /\ \A index \in DOMAIN register_manager : register_manager[index].data = 0

(***************************************************************************)
(* The WAKE_UP and SLEEP cases of the master state machine                 *)
(*                                                                         *)
(* No function of the driver assigns DRV8305_WAKE_UP_STATE or              *)
(* DRV8305_SLEEP_STATE: drv8305_main_sm_go_to_next_state is only called    *)
(* with CONTROL, IDLE and STATUS.  The two cases are entered only when the *)
(* owner of the instance has written the main_state field of its own       *)
(* drv8305_user_object_t.  SpecPower is drv8305_api_master_sm_polling      *)
(* applied to such an instance: an initialized instance whose main_state   *)
(* holds one of the two values, then timer and poll calls.                 *)
(***************************************************************************)
PowerStates == {DRV8305_WAKE_UP_STATE, DRV8305_SLEEP_STATE}

InitPower ==
    /\ default_configuration \in ConfigurationRecords
    /\ cycle_time = 0
    /\ delay_time = 0
    /\ main_state \in PowerStates
    /\ next_main_state = DRV8305_INIT_STATE
    /\ status_state = DRV8305_SM_STATUS_WARNING_REG
    /\ next_status_state = DRV8305_SM_STATUS_WARNING_REG
    /\ control_state = DRV8305_SM_CONTROL_HS_GATE_DRIVE_REG
    /\ next_control_state = DRV8305_SM_CONTROL_HS_GATE_DRIVE_REG
    /\ config = default_configuration
    /\ register_manager =
           [index \in 0..(DRV8305_NUMBER_OF_REGISTERS - 1) |->
               [data |-> 0, type |-> drv8305_registers[index]]]
    /\ configuration_confirmation_flags =
           [hs_gate_drive |-> FALSE, ls_gate_drive |-> FALSE, gate_drive |-> FALSE,
            ic_operation |-> FALSE, shunt_amplifier |-> FALSE,
            voltage_regulator |-> FALSE, vds_sense |-> FALSE]
    /\ hw_callbacks = HardwareCallbacks
    /\ set_call = NoSetCall
    /\ second = SecondInitialized(default_configuration)
    /\ io = IoQuiet("initialize", <<"wake_up_io", "disable_io">>)
    /\ pass = FreshPass
    /\ since_init = FreshSinceInit("boot", FALSE)
    /\ applied = FreshApplied
    /\ wait = [level \in Levels |-> NoWait]
    /\ hist = FreshHist

TimerPower == drv8305_api_timer /\ UNCHANGED <<history_vars, context_vars>>

NextPower == TimerPower \/ PollingNull

SpecPower == InitPower /\ [][NextPower]_vars

\* C27: a poll in main state WAKE_UP (resp. SLEEP) invokes the wake (resp.
\* sleep) callback exactly once and no other callback, performs no
\* transport transaction, and schedules IDLE after
\* DRV8305_REGISTER_SWITCH_DELAY_MS ticks: the main state becomes DELAY with
\* IDLE pending, the counter 0 and the target 50
C27_PowerStatePoll ==
    [][(io'.op = "polling" /\ main_state \in PowerStates)
       => /\ io'.calls = <<IF main_state = DRV8305_WAKE_UP_STATE
                           THEN "wake_up_io" ELSE "sleep_io">>
          /\ io'.tx = NoPacket /\ io'.rx = NoPacket
          /\ main_state' = DRV8305_DELAY_STATE
          /\ next_main_state' = DRV8305_IDLE_STATE
          /\ cycle_time' = 0
          /\ delay_time' = 50
          /\ UNCHANGED <<status_state, next_status_state, control_state,
                         next_control_state, register_manager,
                         configuration_confirmation_flags, config>>
      ]_vars

\* the poll made in SLEEP has run: the sleep callback was the only call and
\* IDLE is pending behind a 50-tick delay
C27_Witness ==
    /\ io.op = "polling"
    /\ io.calls = <<"sleep_io">>
    /\ main_state = DRV8305_DELAY_STATE
    /\ next_main_state = DRV8305_IDLE_STATE
    /\ delay_time = DRV8305_REGISTER_SWITCH_DELAY_MS
    /\ cycle_time = 0

(***************************************************************************)
(* The register slots                                                      *)
(***************************************************************************)

\* C28: after initialize, in every reachable state slot i holds the i-th
\* address of the fixed order 0x01, 0x02, 0x03, 0x04, 0x05, 0x06, 0x07,
\* 0x09, 0x0A, 0x0B, 0x0C, and every slot value is below 2^11, whatever the
\* transport returns
C28_SlotsKeepAddressAndWidth ==
    /\ DOMAIN register_manager = 0..10
    /\ \A index \in 0..10 :
          /\ register_manager[index].type
                = <<1, 2, 3, 4, 5, 6, 7, 9, 10, 11, 12>>[index + 1]
          /\ register_manager[index].data >= 0
          /\ register_manager[index].data < 2048

\* a write of 0x0C was answered with 16 set bits: the slot of 0x0C, the last
\* of the order, holds the 11 low bits
C28_Witness ==
    /\ io.op = "polling"
    /\ io.rx = 65535
    /\ PacketAddress(io.tx) = 12
    /\ register_manager[10].type = 12
    /\ register_manager[10].data = 2047

(***************************************************************************)
(* What tick, ic_enable, ic_disable and confirm change                     *)
(*                                                                         *)
(* SpecTick: single timer calls, poll, confirm, ic_enable and ic_disable   *)
(* calls in every interleaving, and the long run of timer calls that       *)
(* brings the counter MaxWrap ticks before its wrap.                       *)
(***************************************************************************)
TimerLongRun ==
    drv8305_api_timer_long_run /\ UNCHANGED <<history_vars, context_vars>>

NextTick ==
    \/ TimerPower \/ TimerLongRun \/ PollingNull \/ Confirm
    \/ IcEnableFrame \/ IcDisableFrame

SpecTick == Init /\ [][NextTick]_vars

\* C29: a tick adds 1 modulo 2^32 to the shared counter and changes nothing
\* else; ic_enable and ic_disable invoke their own hardware callback, no
\* other, and change no instance state; confirm changes only the main
\* current and pending states, the counter and the target, and leaves the
\* current and pending states of the status and control levels unchanged
C29_TickEnableDisableConfirmFrames ==
    [][/\ io'.op = "timer"
          => /\ U32Halves(cycle_time') = U32HalvesSuccessor(U32Halves(cycle_time))
             /\ io'.calls = <<>>
             /\ io'.tx = NoPacket
             /\ UNCHANGED <<delay_time, main_state, next_main_state,
                            status_state, next_status_state, control_state,
                            next_control_state, config, register_manager,
                            configuration_confirmation_flags, hw_callbacks,
                            default_configuration>>
       /\ io'.op \in {"ic_enable", "ic_disable"}
          => /\ io'.calls = <<IF io'.op = "ic_enable" THEN "enable_io"
                                                     ELSE "disable_io">>
             /\ io'.tx = NoPacket
             /\ UNCHANGED <<cycle_time, delay_time, main_state, next_main_state,
                            status_state, next_status_state, control_state,
                            next_control_state, config, register_manager,
                            configuration_confirmation_flags, hw_callbacks,
                            default_configuration>>
       /\ io'.op = "confirm_configuration"
          => /\ io'.calls = <<>>
             /\ io'.tx = NoPacket
             /\ UNCHANGED <<status_state, next_status_state, control_state,
                            next_control_state, config, register_manager,
                            configuration_confirmation_flags, hw_callbacks,
                            default_configuration>>
      ]_vars

\* a tick has taken the counter from 2^32 - 1 to 0 while the Status
\* Sequencer was past its first register
C29_Witness ==
    /\ io.op = "timer"
    /\ cycle_time = 0
    /\ status_state # DRV8305_SM_STATUS_WARNING_REG

(***************************************************************************)
(* Progress                                                                *)
(*                                                                         *)
(* SpecLive, in runs of DRV8305_REGISTER_SWITCH_DELAY_MS ticks:            *)
(* drv8305_timer is called from a periodic interrupt and                   *)
(* drv8305_polling from the main loop (drv8305_app.c), so each of the two  *)
(* is called again and again: weak fairness on both.  At most MaxCalls     *)
(* confirm and initialize calls are made, in any state, so every           *)
(* behaviour has a last one.  A long run of timer calls with no poll in    *)
(* between is a schedule the fairness allows; hist.starved records that    *)
(* one was made.                                                           *)
(***************************************************************************)
LongRunLive ==
    /\ drv8305_api_timer_long_run
    /\ hist' = [hist EXCEPT !.starved = TRUE]
    /\ UNCHANGED <<pass, since_init, applied, wait, context_vars>>

ConfirmLive ==
    /\ hist.calls < MaxCalls
    /\ drv8305_api_confirm_configuration
    /\ hist' = [hist EXCEPT !.calls = @ + 1]
    /\ UNCHANGED <<pass, since_init, applied, wait, context_vars>>

InitializeLive ==
    /\ hist.calls < MaxCalls
    /\ drv8305_initialize
    /\ hist' = [hist EXCEPT !.calls = @ + 1]
    /\ UNCHANGED <<pass, since_init, applied, wait, context_vars>>

NextLive ==
    TimerCfg \/ PollingNull \/ LongRunLive \/ ConfirmLive \/ InitializeLive

SpecLive ==
    Init /\ [][NextLive]_vars /\ WF_vars(TimerCfg) /\ WF_vars(PollingNull)

\* C30: under fair scheduling (tick and poll each called infinitely often)
\* and with no further initialize or confirm call, the main state
\* eventually reaches IDLE from every reachable state, and from IDLE it
\* eventually enters STATUS
C30_FairProgress ==
    /\ []<>(main_state = DRV8305_IDLE_STATE)
    /\ (main_state = DRV8305_IDLE_STATE) ~> (main_state = DRV8305_STATUS_STATE)

\* C30 as it holds: the same progress, in the behaviours in which no run of
\* timer calls without a poll is long enough to take the counter through
\* its wrap at 2^32
C30_ProgressWhenPolledInTime ==
    \/ <>(hist.starved)
    \/ /\ []<>(main_state = DRV8305_IDLE_STATE)
       /\ (main_state = DRV8305_IDLE_STATE) ~> (main_state = DRV8305_STATUS_STATE)

\* a Status pass entered after the last confirm or initialize call, with the
\* counter never taken through its wrap
C30_Witness ==
    /\ hist.calls = MaxCalls
    /\ ~hist.starved
    /\ main_state = DRV8305_STATUS_STATE
    /\ status_state = DRV8305_SM_STATUS_VGS_FAULTS_REG

(***************************************************************************)
(* Recurrence of the status reads                                          *)
(***************************************************************************)
StatusRead(address) ==
    /\ io.op = "polling"
    /\ io.tx # NoPacket
    /\ PacketIsRead(io.tx)
    /\ PacketAddress(io.tx) = address
    /\ io.cb_index = address - 1

\* C31: under fair scheduling of tick and poll after a successful
\* initialize, each of the 4 status registers 0x01, 0x02, 0x03, 0x04 is read,
\* and its value handed to its status callback, infinitely often (in the
\* behaviours in which the counter is never taken through its wrap by a run
\* of timer calls with no poll)
C31_EachStatusRegisterReadForEver ==
    \/ <>(hist.starved)
    \/ \A address \in {DRV8305_STATUS_01_REG_ADDR, DRV8305_STATUS_02_REG_ADDR,
                        DRV8305_STATUS_03_REG_ADDR, DRV8305_STATUS_04_REG_ADDR} :
          []<>StatusRead(address)

(***************************************************************************)
(* The INIT step and the first transaction                                 *)
(***************************************************************************)

\* C32: after a successful initialize no transport transaction is performed
\* before the INIT step has invoked the enable and the wake callback, in
\* every interleaving of tick, poll and confirm calls: once the instance
\* has made a transaction since its last initialize, the first poll since
\* that initialize was the INIT step
C32_NoTransactionBeforeInitStep ==
    since_init.log # <<>> =>
        /\ since_init.polls >= 1
        /\ since_init.first_calls = <<"enable_io", "wake_up_io">>

(***************************************************************************)
(* Calls through the callback pointers                                     *)
(*                                                                         *)
(* SpecCall: the owner clears or sets one hardware callback pointer and    *)
(* then calls initialize, which succeeds or aborts; timer and poll calls   *)
(* follow.  drv8305_api_master_sm_polling tests no pointer: PollCalls are  *)
(* the hardware callbacks the next poll calls, in order.  A call through   *)
(* a NULL pointer is undefined: it returns and the poll goes on, or it     *)
(* traps and the poll ends there.  hist.aborted records that the latest    *)
(* initialize returned at its pointer test.                                *)
(***************************************************************************)
PollCalls ==
    CASE main_state = DRV8305_INIT_STATE -> <<"enable_io", "wake_up_io">>
      [] main_state = DRV8305_WAKE_UP_STATE -> <<"wake_up_io">>
      [] main_state = DRV8305_SLEEP_STATE -> <<"sleep_io">>
      [] main_state = DRV8305_STATUS_STATE
           /\ status_state # DRV8305_SM_STATUS_CYCLE_DELAY -> TransportCalls
      [] main_state = DRV8305_CONTROL_STATE
           /\ control_state # DRV8305_SM_CONTROL_CYCLE_DELAY -> TransportCalls
      [] OTHER -> <<>>

NullCalls == {i \in DOMAIN PollCalls : PollCalls[i] \notin hw_callbacks}

RewireCall == io.op # "rewire" /\ Rewire

InitializeCall ==
    /\ drv8305_initialize
    /\ hist' = [hist EXCEPT !.aborted = ~(MandatoryCallbacks \subseteq hw_callbacks)]
    /\ UNCHANGED <<pass, since_init, applied, wait, context_vars>>

TimerCall == io.op # "rewire" /\ TimerCfg

PollingCall ==
    /\ io.op # "rewire"
    /\ \/ drv8305_api_master_sm_polling(DeviceResponse(PollTx))
       \/ /\ NullCalls # {}
          /\ io' = IoQuiet("polling:trap",
                           SubSeq(PollCalls, 1,
                                  CHOOSE i \in NullCalls :
                                      \A j \in NullCalls : i <= j))
          /\ UNCHANGED <<self_vars, default_configuration>>
    /\ UNCHANGED <<history_vars, context_vars>>

NextCall == RewireCall \/ InitializeCall \/ TimerCall \/ PollingCall

SpecCall == Init /\ [][NextCall]_vars

\* C33: a poll never calls through a NULL pointer: on an instance whose
\* latest initialize succeeded every callback a poll calls is one that
\* initialize found non-NULL, and on an instance whose latest initialize
\* aborted a poll calls nothing
C33_PollCallsNoNullCallback ==
    [][io'.op \in {"polling", "polling:trap"}
       => IF hist.aborted
          THEN io'.calls = <<>>
          ELSE \A i \in DOMAIN io'.calls : io'.calls[i] \in hw_callbacks]_vars

(***************************************************************************)
(* The confirmation flags across an initialize                             *)
(***************************************************************************)

\* C34: after any initialize, drv8305_reset included, every confirmation
\* flag is false until the Control Sequencer has written the flag's
\* register after that initialize: a flag that is true rests on a write
\* made since the latest initialize
C34_FlagsFalseUntilWrittenAfterInitialize ==
    \A st \in ControlSteps :
        configuration_confirmation_flags[ControlField(st)] =>
            \E i \in DOMAIN since_init.log :
                /\ ~PacketIsRead(since_init.log[i])
                /\ PacketAddress(since_init.log[i])
                      = drv8305_registers[ControlIndex(st)]

(***************************************************************************)
(* The timer interrupt                                                     *)
(*                                                                         *)
(* SpecIrq: drv8305_timer runs from a timer interrupt that preempts        *)
(* drv8305_polling and drv8305_confirm_configuration.  The interrupt runs  *)
(* to completion, so the read and the write of its cycle_time++ are never  *)
(* separated by a store of the preempted call.  A drv8305_*_go_to_next_    *)
(* state is four stores, cycle_time = 0 first and the level's state        *)
(* second: TickPreempting is the interrupt taken between these two, which  *)
(* leaves the instance as the whole call followed by a tick leaves it,     *)
(* with one difference in the history: that tick occurred before the       *)
(* delay state was entered.  An interrupt taken at any other point of a    *)
(* call leaves the instance and the history as a tick before or after the  *)
(* whole call does.  hist.entered is the level whose delay state the       *)
(* latest call entered, while no tick has followed.  Ticks come in runs    *)
(* of DRV8305_REGISTER_SWITCH_DELAY_MS, or of one less after a preempting  *)
(* tick.                                                                   *)
(***************************************************************************)
EnteredLevel ==
    IF \E level \in Levels : InDelay(level)' /\ ~InDelay(level)
    THEN CHOOSE level \in Levels : InDelay(level)' /\ ~InDelay(level)
    ELSE "none"

PollingIrq ==
    /\ drv8305_api_master_sm_polling(DeviceResponse(PollTx))
    /\ WaitPolling
    /\ hist' = [hist EXCEPT !.entered = EnteredLevel]
    /\ UNCHANGED <<pass, since_init, applied, context_vars>>

ConfirmIrq ==
    /\ drv8305_api_confirm_configuration
    /\ WaitConfirm
    /\ hist' = [hist EXCEPT !.entered = "main"]
    /\ UNCHANGED <<pass, since_init, applied, context_vars>>

TimerIrq ==
    /\ cycle_time % DRV8305_REGISTER_SWITCH_DELAY_MS = 0
    /\ drv8305_api_timer_calls(DRV8305_REGISTER_SWITCH_DELAY_MS)
    /\ WaitTimer(DRV8305_REGISTER_SWITCH_DELAY_MS)
    /\ hist' = [hist EXCEPT !.entered = "none"]
    /\ UNCHANGED <<pass, since_init, applied, context_vars>>

TimerRealignIrq ==
    /\ cycle_time % DRV8305_REGISTER_SWITCH_DELAY_MS = 1
    /\ drv8305_api_timer_calls(DRV8305_REGISTER_SWITCH_DELAY_MS - 1)
    /\ WaitTimer(DRV8305_REGISTER_SWITCH_DELAY_MS - 1)
    /\ hist' = [hist EXCEPT !.entered = "none"]
    /\ UNCHANGED <<pass, since_init, applied, context_vars>>

TickPreempting ==
    /\ hist.entered # "none"
    /\ drv8305_api_timer
    /\ wait' = [level \in Levels |->
                  IF InDelay(level) /\ level # hist.entered
                  THEN [wait[level] EXCEPT !.ticks = Min(@ + 1, wait[level].target)]
                  ELSE wait[level]]
    /\ hist' = [hist EXCEPT !.entered = "none"]
    /\ UNCHANGED <<pass, since_init, applied, context_vars>>

NextIrq ==
    TimerIrq \/ TimerRealignIrq \/ TickPreempting \/ PollingIrq \/ ConfirmIrq

SpecIrq == Init /\ [][NextIrq]_vars

\* C35: with tick run from a timer interrupt that preempts poll and
\* confirm, a delay state still never releases before its target number of
\* ticks has occurred since it was entered
C35_DelayKeepsTargetUnderPreemption ==
    [][\A level \in Levels :
          (io'.op = "polling" /\ InDelay(level) /\ ~InDelay(level)')
              => wait[level].ticks >= wait[level].target]_vars

(***************************************************************************)
(* What a poll of one level leaves alone                                   *)
(***************************************************************************)
StatusSlots == DRV8305_STATUS_01_ARRAY_INDEX..DRV8305_STATUS_04_ARRAY_INDEX

ControlSlots == DRV8305_CONTROL_05_ARRAY_INDEX..DRV8305_CONTROL_0C_ARRAY_INDEX

\* C36: a poll while the main state is STATUS leaves the control level's
\* current and pending states, the 7 control slots, the 7 confirmation
\* flags and the configuration unchanged; a poll while the main state is
\* CONTROL leaves the status level's current and pending states and the 4
\* status slots unchanged
C36_PollOfOneLevelLeavesTheOther ==
    [][io'.op = "polling" =>
          /\ main_state = DRV8305_STATUS_STATE =>
                /\ control_state' = control_state
                /\ next_control_state' = next_control_state
                /\ \A index \in ControlSlots :
                      register_manager'[index] = register_manager[index]
                /\ configuration_confirmation_flags' = configuration_confirmation_flags
                /\ config' = config
          /\ main_state = DRV8305_CONTROL_STATE =>
                /\ status_state' = status_state
                /\ next_status_state' = next_status_state
                /\ \A index \in StatusSlots :
                      register_manager'[index] = register_manager[index]]_vars

\* the Status pass that follows a Control pass reads 0x04 and stores an
\* all-ones answer in the slot of 0x04, the control level staying after its
\* last step with the seven control slots as the Control pass left them
C36_Witness ==
    /\ io.op = "polling"
    /\ io.rx = 65535
    /\ PacketIsRead(io.tx)
    /\ PacketAddress(io.tx) = DRV8305_STATUS_04_REG_ADDR
    /\ register_manager[DRV8305_STATUS_04_ARRAY_INDEX].data = 2047
    /\ control_state = DRV8305_SM_CONTROL_VDS_SENSE_REG
    /\ \A index \in ControlSlots : register_manager[index].data # 2047
    /\ \E index \in ControlSlots : register_manager[index].data # 0

(***************************************************************************)
(* The values the six state fields take                                    *)
(***************************************************************************)
PendingNotOwnDelay ==
    /\ next_main_state # DRV8305_DELAY_STATE
    /\ next_status_state # DRV8305_SM_STATUS_CYCLE_DELAY
    /\ next_control_state # DRV8305_SM_CONTROL_CYCLE_DELAY

NoReadControlState ==
    /\ control_state \notin DRV8305_SM_READ_CONTROL_STATES
    /\ next_control_state \notin DRV8305_SM_READ_CONTROL_STATES

NoPowerState == main_state \notin {DRV8305_WAKE_UP_STATE, DRV8305_SLEEP_STATE}

\* C37: in every reachable state the pending state of a level is never
\* that level's own delay state and the main pending state is never INIT;
\* the control level's current and pending states are never one of the
\* DRV8305_SM_READ_CONTROL_* states; and the main states WAKE and SLEEP
\* are never entered
C37_StateFieldValues ==
    /\ PendingNotOwnDelay
    /\ next_main_state # DRV8305_INIT_STATE
    /\ NoReadControlState
    /\ NoPowerState

\* C37, amended: the same, the main pending state being INIT only while
\* the main state is INIT too (the instance as constructed, until its first
\* poll or confirm), hence never while the main level waits in DELAY
C37_StateFieldValuesOncePolled ==
    /\ PendingNotOwnDelay
    /\ next_main_state = DRV8305_INIT_STATE => main_state = DRV8305_INIT_STATE
    /\ main_state = DRV8305_DELAY_STATE =>
           next_main_state \in {DRV8305_CONTROL_STATE, DRV8305_IDLE_STATE,
                                DRV8305_STATUS_STATE}
    /\ NoReadControlState
    /\ NoPowerState

\* a reset during the Status pass that follows the boot Control pass: the
\* main state is INIT again and the three pending states are those the
\* passes left, none of them a delay state, INIT or a read state
C37_Witness ==
    /\ io.op = "initialize"
    /\ since_init.via = "reset"
    /\ main_state = DRV8305_INIT_STATE
    /\ next_main_state = DRV8305_STATUS_STATE
    /\ next_control_state = DRV8305_SM_CONTROL_VDS_SENSE_REG
    /\ next_status_state = DRV8305_SM_STATUS_OV_VDS_REG

====
